---- MODULE Spec2Model ----
(***************************************************************************)
(* Model of the dependency manager of src/InternalServices.hpp             *)
(* (namespace InternalServices) for ONE service interface T: the Slot      *)
(* (static `dependency` of dependencyInjection), the Collection (static    *)
(* `dependency` of dependencyAddition), the constructor closures built by  *)
(* the lifetime overload of inject and their function-local statics.       *)
(*                                                                         *)
(* Spec     : the calls of the public interface, each taken as one step,   *)
(*            made from two threads of the hosting program.                *)
(* SpecRace : getInstance() taken one step at a time, so that the calls    *)
(*            of two threads interleave inside the constructor closure.    *)
(* SpecConsumer : the same calls on either registry (InternalServices or   *)
(*            SingletonServices, src/InternalServices.hpp lines 401-488)   *)
(*            with a consumer that keeps a returned instance; the program  *)
(*            binds one closure in both modes.                             *)
(* SpecRebind : the InternalServices calls of a program that binds the     *)
(*            same provider and lifetime with two argument values.         *)
(* SpecDip  : the handles of src/dip.hpp (dip::instance and                *)
(*            dip::instance_set) with their installers, and the custom     *)
(*            round-robin injector of src/Examples/RoundRobinExample.cpp.  *)
(*            Assertions are compiled in: a failed one ends the program.   *)
(* SpecInterfaces : two managers DependencyManager<T> and                  *)
(*            DependencyManager<U> bound to one user-written constructor   *)
(*            function (src/Examples/MultipleInheritanceExample.cpp).      *)
(* SpecProviderSet : a Collection of a Singleton and a Transient binding   *)
(*            (src/Examples/ProviderSetExample.cpp).                       *)
(* SpecMutual : two interfaces T and U, each bound to a provider of its    *)
(*            own whose method resolves the other interface               *)
(*            (src/Examples/InfiniteLoopExample.cpp), with the call stack. *)
(* SpecBindRace : a Single-mode binding call taken one step at a time,     *)
(*            made by two threads at once, on either registry.             *)
(* SpecArguments : a Collection of one provider bound twice with a         *)
(*            memoising lifetime and two argument values.                  *)
(***************************************************************************)
EXTENDS Integers, Sequences, FiniteSets, TLC

\* ---------------------------------------------------------------- bounds
\* Longest Collection / most successful Slot+Collection stores between resets.
MaxBindings == 2
\* Most provider objects ever constructed (std::make_shared calls) in a run.
MaxInstances == 3

\* ---------------------------------------------------------------- inputs
\* Execution threads of the hosting program.
Threads == {"t1", "t2"}
\* Provider classes implementing T (the ServiceProvider template argument).
Providers == {"P1"}
\* Values of the constructor parameter pack (one std::string argument).
Args == {"a", "b"}

\* enum class Lifetime
Lifetime == {"Transient", "Singleton", "ThreadLocal"}
\* enum class ServiceConsumerMode
ServiceConsumerMode == {"getInstance", "getAllInstances", "both"}

\* Exceptions (and normal return).
NoThrow == "none"
missing_service_provider == "missing_service_provider"
service_provider_already_injected == "service_provider_already_injected"

\* ---------------------------------------------------------------- recipes
\* An empty std::function (Constructor constructed from nullptr).
NullCtor == [kind |-> "nullptr"]

\* The closure built by inject<ServiceProvider, lifetime, consumerMode>(args):
\* its closure TYPE (hence its function-local static) is fixed by the
\* template arguments <ServiceProvider, lifetime, consumerMode, _Args...>;
\* the captured argument values belong to the closure OBJECT.
Lambda(p, lt, m, a) ==
    [kind |-> "lambda", provider |-> p, lifetime |-> lt, consumerMode |-> m, args |-> a]

\* The user-written constructor function of the injection example: it keeps
\* one static shared instance built with the argument "global".
global_constructor_function ==
    [kind |-> "function", name |-> "global_constructor_function"]

LifetimeConstructors ==
    {Lambda(p, lt, m, a) : p \in Providers, lt \in Lifetime,
                           m \in ServiceConsumerMode, a \in Args}

\* Everything a caller can pass as `Constructor constructor`.
Constructor == {NullCtor, global_constructor_function} \cup LifetimeConstructors

\* No object (a null shared_ptr / a static not yet initialised).
NoInstance == 0

\* The programs considered: the text of each holds one call site of
\* inject<ServiceProvider, lifetime, consumerMode>(args), which it may execute
\* any number of times, beside its calls of inject(constructor, consumerMode).
Programs == {{c} : c \in LifetimeConstructors}

\* A function-local static whose initialiser is running on some thread.
Initializing == -1

\* What a stepwise call holds before it has returned.
NotYet == [handle |-> 0, waited |-> FALSE]

\* ---------------------------------------------------------------- dip.hpp: data
\* The objects of a scope: the dip::instance / dip::instance_set variables a
\* program declares.
Scopes == {"x", "y"}

\* RoundRobin::providers.size()
PoolSize == 3

\* A null Service *, and an empty std::function.
NullRef == [kind |-> "null"]
NullFn == [kind |-> "nullptr"]

\* static Provider p of the acquire lambda of `site`; its per-thread
\* counterpart; the n-th `new Provider`; RoundRobin's providers[i].
StaticRef(site) == [kind |-> "static", site |-> site]
ThreadLocalRef(site, t) == [kind |-> "thread_local", site |-> site, thread |-> t]
NewRef(n) == [kind |-> "new", id |-> n]
PoolRef(i) == [kind |-> "pool", index |-> i]

\* The acquire lambda of inject_singleton & co. with its captured arguments,
\* and RoundRobin::acquire.
AcquireLambda(site, a) == [kind |-> "lambda", site |-> site, args |-> a]
RoundRobin_acquire == [kind |-> "function", name |-> "RoundRobin::acquire"]

\* The release lambda of inject_transient and add_transient: delete provider.
ReleaseDelete(site) == [kind |-> "lambda", site |-> site]

\* dip::Injector<Service>
Injector(acquire, release) == [acquire |-> acquire, release |-> release]

\* The custom injector of the round-robin example, and an injector whose
\* acquire was left empty.
custom_injector == Injector(RoundRobin_acquire, NullFn)
EmptyInjector == Injector(NullFn, NullFn)

\* No object in the scope (the variable is not alive).
NoObject == [alive |-> FALSE]

\* Normal end of a call.
NoAbort == "none"

\* What a program that has made no dip call looks like.
NoEvent == [op |-> "start", scope |-> "none", thread |-> "none", abort |-> NoAbort,
            acquired |-> << >>, released |-> << >>, ub |-> FALSE]

\* The two dependency managers of the header.
Registries == {"InternalServices", "SingletonServices"}

\* The consumer's Provider variable while it holds nothing (a null shared_ptr).
NotKept == [handle |-> 0, op |-> "none", thread |-> "none",
            recipe |-> [kind |-> "nullptr"], reset |-> FALSE]

VARIABLES
    callSites,      \* the lifetime-inject call sites of the program (fixed during a run)
    dependency,     \* Slot: static Constructor dependency (dependencyInjection)
    dependencies,   \* Collection: static std::vector<Constructor> dependency (dependencyAddition)
    heap,           \* every provider object constructed so far; a handle is its index
    singleton,      \* static auto singleton of the Singleton closure, per closure type
    tlSingleton,    \* static thread_local auto singleton, per thread and closure type
    instance,       \* static auto instance of global_constructor_function
    firstBound,     \* history: constructor of the first successful getInstance-mode inject since the last reset
    multiBound,     \* history: constructors of the getAllInstances-mode injects since the last reset
    multiOnly,      \* history: no `both`-mode inject of a constructor since the last reset
    last,           \* outcome of the most recent call
    pc,             \* per thread: where it stands inside a stepwise getInstance()
    got,            \* per thread: the handle its last stepwise getInstance() returned,
                    \* and whether that call had to wait for a static's initialisation
    registry,       \* which dependency manager the program uses for T (fixed during a run)
    _instance,      \* SingletonServices: inline static Provider _instance
    kept,           \* the Provider variable of a consumer: a copy of a handle it was returned
    destroyed,      \* the provider objects whose destructor has run
    _injector,      \* dip::instance<Service>: inline static Injector<Service> _injector
    _injectors,     \* dip::instance_set<Service>: inline static std::vector<Injector<Service>> _injectors
    handles,        \* the dip::instance<Service> objects of the program
    sets,           \* the dip::instance_set<Service> objects of the program
    statics,        \* the static / static thread_local Provider objects constructed so far
    news,           \* the providers created by `new Provider(args...)`; a reference is an index
    deleted,        \* the references `delete` was applied to
    providers,      \* RoundRobin: inline static std::array<MyServiceProvider *, 3> providers
    round,          \* RoundRobin: inline static std::size_t round
    acquisitions,   \* history: what RoundRobin::acquire returned, call after call, since the
                    \* last multiple of 2 * PoolSize calls
    event,          \* dip: the call made last, the acquire / release calls it made, how it ended
    other,          \* DependencyManager<U> of a second interface U: its Slot and its Collection
    stack           \* the provider methods in progress, outermost call first (a call stack)

vars == <<callSites, dependency, dependencies, heap, singleton, tlSingleton, instance,
          firstBound, multiBound, multiOnly, last, pc, got,
          registry, _instance, kept, destroyed,
          _injector, _injectors, handles, sets, statics, news, deleted, providers, round,
          acquisitions, event, other, stack>>

dipVars == <<_injector, _injectors, handles, sets, statics, news, deleted, providers, round,
             acquisitions, event>>

raceVars == <<pc, got>>

\* The dip statics before any call: nothing injected, nothing constructed.
DipInit ==
    /\ _injector = EmptyInjector
    /\ _injectors = << >>
    /\ handles = [s \in Scopes |-> NoObject]
    /\ sets = [s \in Scopes |-> NoObject]
    /\ statics = {}
    /\ news = << >>
    /\ deleted = {}
    /\ providers = [i \in 0..PoolSize - 1 |-> NullRef]
    /\ round = 0
    /\ acquisitions = << >>
    /\ event = NoEvent

consumerVars == <<registry, _instance, kept, destroyed>>

\* The stores of a dependency manager no call was made on:
\* static Constructor dependency = nullptr; static std::vector<Constructor> dependency = {}
NoBindings == [dependency |-> NullCtor, dependencies |-> << >>]

\* The closure type of a lifetime closure: what its function-local static is keyed by.
ClosureType(c) == <<c.provider, c.consumerMode>>
ClosureTypes == Providers \X ServiceConsumerMode

\* The constructor is a closure of inject<..., lt, ...>.
HasLifetime(c, lt) == c.kind = "lambda" /\ c.lifetime = lt


\* ---------------------------------------------------------------- registry
\* Variant: a later non-null constructor silently replaces the stored one.
dependencyInjectionOverwrite(dep, in, clear) ==
    LET d1 == IF clear THEN NullCtor ELSE dep
    IN  [dependency |-> IF in # NullCtor THEN in ELSE d1, thrown |-> NoThrow]

\* Variant: the clear parameter is ignored.
dependencyInjectionNoClear(dep, in, clear) ==
    IF in # NullCtor
    THEN IF dep = NullCtor
         THEN [dependency |-> in, thrown |-> NoThrow]
         ELSE [dependency |-> dep, thrown |-> service_provider_already_injected]
    ELSE [dependency |-> dep, thrown |-> NoThrow]

\* dependencyInjection(in, clear) on the Slot `dep`: the Slot afterwards and
\* the exception raised (the returned value is the Slot afterwards).
dependencyInjection(dep, in, clear) ==
    LET d1 == IF clear THEN NullCtor ELSE dep
    IN  IF in # NullCtor
        THEN IF d1 = NullCtor
             THEN [dependency |-> in, thrown |-> NoThrow]
             ELSE [dependency |-> d1, thrown |-> service_provider_already_injected]
        ELSE [dependency |-> d1, thrown |-> NoThrow]

\* Variant: the new constructor is inserted at the front of the vector.
dependencyAdditionFront(deps, in, clear) ==
    LET d1 == IF clear THEN << >> ELSE deps
    IN  IF in # NullCtor THEN <<in>> \o d1 ELSE d1

\* Variant: a constructor already stored is not stored a second time.
dependencyAdditionUnique(deps, in, clear) ==
    LET d1 == IF clear THEN << >> ELSE deps
    IN  IF in # NullCtor /\ ~(\E i \in 1..Len(d1) : d1[i] = in) THEN Append(d1, in) ELSE d1

\* dependencyAddition(in, clear) on the Collection `deps`: the Collection
\* afterwards, which is also the returned copy. It has no throw statement.
dependencyAddition(deps, in, clear) ==
    LET d1 == IF clear THEN << >> ELSE deps
    IN  IF in # NullCtor THEN Append(d1, in) ELSE d1

\* Variant: one store behind both modes: every binding is put in the Slot
\* (when it is empty) and in the Collection.
injectOneStore(dep, deps, constructor, consumerMode) ==
    [dependency |-> IF dep = NullCtor THEN constructor ELSE dep,
     dependencies |-> dependencyAddition(deps, constructor, FALSE),
     thrown |-> NoThrow]

\* inject(Constructor constructor, ServiceConsumerMode consumerMode):
\* an if / else-if chain, so `both` takes the first branch only.
inject(dep, deps, constructor, consumerMode) ==
    IF consumerMode = "getInstance" \/ consumerMode = "both"
    THEN LET r == dependencyInjection(dep, constructor, FALSE)
         IN  [dependency |-> r.dependency, dependencies |-> deps, thrown |-> r.thrown]
    ELSE IF consumerMode = "getAllInstances" \/ consumerMode = "both"
    THEN [dependency |-> dep,
          dependencies |-> dependencyAddition(deps, constructor, FALSE),
          thrown |-> NoThrow]
    ELSE [dependency |-> dep, dependencies |-> deps, thrown |-> NoThrow]

\* Variant: the two tests are chained with `else`, as in inject(constructor, mode).
injectLifetimeElseIf(dep, deps, constructor, consumerMode) ==
    inject(dep, deps, constructor, consumerMode)

\* Variant: the Collection is extended before the Slot is tested.
injectLifetimeAddFirst(dep, deps, constructor, consumerMode) ==
    LET viaSlot == consumerMode = "getInstance" \/ consumerMode = "both"
        viaSet  == consumerMode = "getAllInstances" \/ consumerMode = "both"
        added == IF viaSet THEN dependencyAddition(deps, constructor, FALSE) ELSE deps
        r  == IF viaSlot THEN dependencyInjection(dep, constructor, FALSE)
                         ELSE [dependency |-> dep, thrown |-> NoThrow]
    IN  [dependency |-> r.dependency, dependencies |-> added, thrown |-> r.thrown]

\* inject<ServiceProvider, lifetime, consumerMode>(args), after the closure
\* `constructor` is built: two independent `if constexpr`, the second one
\* not reached when dependencyInjection throws.
injectLifetime(dep, deps, constructor, consumerMode) ==
    LET viaSlot == consumerMode = "getInstance" \/ consumerMode = "both"
        viaSet  == consumerMode = "getAllInstances" \/ consumerMode = "both"
        r  == IF viaSlot THEN dependencyInjection(dep, constructor, FALSE)
                         ELSE [dependency |-> dep, thrown |-> NoThrow]
    IN  IF r.thrown # NoThrow
        THEN [dependency |-> r.dependency, dependencies |-> deps, thrown |-> r.thrown]
        ELSE [dependency |-> r.dependency,
              dependencies |-> IF viaSet THEN dependencyAddition(deps, constructor, FALSE)
                                         ELSE deps,
              thrown |-> NoThrow]

\* ---------------------------------------------------------------- closures
\* The memory a constructor call reads and writes.
Memory == [heap |-> heap, singleton |-> singleton,
           tlSingleton |-> tlSingleton, instance |-> instance]

\* std::make_shared<p>(a) executed on thread t: a new object, never an
\* existing one (the object records the thread that constructed it).
make_shared(mem, t, p, a) ==
    [mem |-> [mem EXCEPT !.heap = Append(@, [provider |-> p, args |-> a, thread |-> t])],
     ret |-> Len(mem.heap) + 1]

\* Variant: the Transient closure keeps its object in a static, like a Singleton.
TransientLambdaCached(c, t, mem) ==
    IF mem.singleton[ClosureType(c)] # NoInstance
    THEN [mem |-> mem, ret |-> mem.singleton[ClosureType(c)]]
    ELSE LET n == make_shared(mem, t, c.provider, c.args)
         IN  [mem |-> [n.mem EXCEPT !.singleton[ClosureType(c)] = n.ret], ret |-> n.ret]

\* Transient closure: return std::make_shared<ServiceProvider>(args...).
TransientLambda(c, t, mem) == make_shared(mem, t, c.provider, c.args)

\* Variant: `singleton` is an automatic variable, initialised on every call.
SingletonLambdaEveryCall(c, t, mem) ==
    LET n == make_shared(mem, t, c.provider, c.args)
    IN  [mem |-> [n.mem EXCEPT !.singleton[ClosureType(c)] = n.ret], ret |-> n.ret]

\* Singleton closure: static auto singleton = std::make_shared<...>(args...);
\* the initialiser runs on the first call of this closure TYPE only.
SingletonLambda(c, t, mem) ==
    IF mem.singleton[ClosureType(c)] # NoInstance
    THEN [mem |-> mem, ret |-> mem.singleton[ClosureType(c)]]
    ELSE LET n == make_shared(mem, t, c.provider, c.args)
         IN  [mem |-> [n.mem EXCEPT !.singleton[ClosureType(c)] = n.ret], ret |-> n.ret]

\* Variant: `singleton` is static but not thread_local: the first thread to
\* call initialises it and every thread gets that object.
ThreadLocalLambdaShared(c, t, mem) ==
    IF \E u \in Threads : mem.tlSingleton[u][ClosureType(c)] # NoInstance
    THEN LET u == CHOOSE u \in Threads : mem.tlSingleton[u][ClosureType(c)] # NoInstance
         IN  [mem |-> [mem EXCEPT !.tlSingleton[t][ClosureType(c)] =
                                       mem.tlSingleton[u][ClosureType(c)]],
              ret |-> mem.tlSingleton[u][ClosureType(c)]]
    ELSE LET n == make_shared(mem, t, c.provider, c.args)
         IN  [mem |-> [n.mem EXCEPT !.tlSingleton[t][ClosureType(c)] = n.ret], ret |-> n.ret]

\* ThreadLocal closure: static thread_local auto singleton = ...; the
\* initialiser runs on the first call of this closure type on each thread.
ThreadLocalLambda(c, t, mem) ==
    IF mem.tlSingleton[t][ClosureType(c)] # NoInstance
    THEN [mem |-> mem, ret |-> mem.tlSingleton[t][ClosureType(c)]]
    ELSE LET n == make_shared(mem, t, c.provider, c.args)
         IN  [mem |-> [n.mem EXCEPT !.tlSingleton[t][ClosureType(c)] = n.ret], ret |-> n.ret]

\* global_constructor_function(): static auto instance = make_shared("global").
GlobalConstructorFunction(t, mem) ==
    IF mem.instance # NoInstance
    THEN [mem |-> mem, ret |-> mem.instance]
    ELSE LET n == make_shared(mem, t, "MyServiceProvider", "global")
         IN  [mem |-> [n.mem EXCEPT !.instance = n.ret], ret |-> n.ret]

\* constructor(): the call of a non-empty std::function on thread t.
Invoke(c, t, mem) ==
    IF c.kind = "function" THEN GlobalConstructorFunction(t, mem)
    ELSE IF c.lifetime = "Transient" THEN TransientLambda(c, t, mem)
    ELSE IF c.lifetime = "Singleton" THEN SingletonLambda(c, t, mem)
    ELSE ThreadLocalLambda(c, t, mem)

\* Variant: every position gets what the first constructor of the set yields.
RECURSIVE InvokeAllHead(_, _, _)
InvokeAllHead(constructorSet, t, mem) ==
    IF constructorSet = << >>
    THEN [mem |-> mem, ret |-> << >>, invoked |-> << >>]
    ELSE LET h == Invoke(Head(constructorSet), t, mem)
         IN  [mem |-> h.mem, ret |-> [i \in 1..Len(constructorSet) |-> h.ret],
              invoked |-> constructorSet]

\* for (auto constructor : constructorSet) instanceSet.push_back(constructor());
\* `invoked` lists the constructors in the order they were called.
RECURSIVE InvokeAll(_, _, _)
InvokeAll(constructorSet, t, mem) ==
    IF constructorSet = << >>
    THEN [mem |-> mem, ret |-> << >>, invoked |-> << >>]
    ELSE LET h == Invoke(Head(constructorSet), t, mem)
             r == InvokeAll(Tail(constructorSet), t, h.mem)
         IN  [mem |-> r.mem, ret |-> <<h.ret>> \o r.ret,
              invoked |-> <<Head(constructorSet)>> \o r.invoked]

\* Variant: the empty std::function is called without the null test.
getInstanceUnchecked(dep, t, mem) ==
    LET constructor == dependencyInjection(dep, NullCtor, FALSE).dependency
    IN  IF constructor = NullCtor
        THEN [thrown |-> "bad_function_call", ret |-> << >>,
              invoked |-> <<constructor>>, mem |-> mem, dependency |-> constructor]
        ELSE LET r == Invoke(constructor, t, mem)
             IN  [thrown |-> NoThrow, ret |-> <<r.ret>>,
                  invoked |-> <<constructor>>, mem |-> r.mem, dependency |-> constructor]

\* Variant: the constructor is called twice and the second handle returned.
getInstanceTwice(dep, t, mem) ==
    LET constructor == dependencyInjection(dep, NullCtor, FALSE).dependency
    IN  IF constructor = NullCtor
        THEN [thrown |-> missing_service_provider, ret |-> << >>,
              invoked |-> << >>, mem |-> mem, dependency |-> constructor]
        ELSE LET q == Invoke(constructor, t, mem)
                 r == Invoke(constructor, t, q.mem)
             IN  [thrown |-> NoThrow, ret |-> <<r.ret>>,
                  invoked |-> <<constructor, constructor>>, mem |-> r.mem,
                  dependency |-> constructor]

\* getInstance() on thread t: the exception, the handle and the memory afterwards.
getInstance(dep, t, mem) ==
    LET constructor == dependencyInjection(dep, NullCtor, FALSE).dependency
    IN  IF constructor = NullCtor
        THEN [thrown |-> missing_service_provider, ret |-> << >>,
              invoked |-> << >>, mem |-> mem, dependency |-> constructor]
        ELSE LET r == Invoke(constructor, t, mem)
             IN  [thrown |-> NoThrow, ret |-> <<r.ret>>,
                  invoked |-> <<constructor>>, mem |-> r.mem, dependency |-> constructor]

\* Variant: the allowEmpty parameter is ignored.
getAllInstancesStrict(deps, allowEmpty, t, mem) ==
    LET constructorSet == dependencyAddition(deps, NullCtor, FALSE)
    IN  IF Len(constructorSet) = 0
        THEN [thrown |-> missing_service_provider, ret |-> << >>,
              invoked |-> << >>, mem |-> mem, dependencies |-> constructorSet]
        ELSE LET r == InvokeAll(constructorSet, t, mem)
             IN  [thrown |-> NoThrow, ret |-> r.ret,
                  invoked |-> r.invoked, mem |-> r.mem, dependencies |-> constructorSet]

\* getAllInstances(allowEmpty) on thread t.
getAllInstances(deps, allowEmpty, t, mem) ==
    LET constructorSet == dependencyAddition(deps, NullCtor, FALSE)
    IN  IF Len(constructorSet) = 0 /\ ~allowEmpty
        THEN [thrown |-> missing_service_provider, ret |-> << >>,
              invoked |-> << >>, mem |-> mem, dependencies |-> constructorSet]
        ELSE LET r == InvokeAll(constructorSet, t, mem)
             IN  [thrown |-> NoThrow, ret |-> r.ret,
                  invoked |-> r.invoked, mem |-> r.mem, dependencies |-> constructorSet]

\* injected()
injected(dep) == dependencyInjection(dep, NullCtor, FALSE).dependency # NullCtor

\* Variant: injectedSize() counts the different constructors of the Collection.
injectedSizeDistinct(deps) ==
    Cardinality({dependencyAddition(deps, NullCtor, FALSE)[i] : i \in 1..Len(deps)})

\* injectedSize()
injectedSize(deps) == Len(dependencyAddition(deps, NullCtor, FALSE))

\* ---------------------------------------------------------------- state machine
Outcome(op, mode, nonnull, thread, allowEmpty, thrown, ret, invoked) ==
    [op |-> op, mode |-> mode, nonnull |-> nonnull, thread |-> thread,
     allowEmpty |-> allowEmpty, thrown |-> thrown, ret |-> ret, invoked |-> invoked]

Init ==
    /\ callSites \in Programs
    /\ dependency = NullCtor
    /\ dependencies = << >>
    /\ heap = << >>
    /\ singleton = [k \in ClosureTypes |-> NoInstance]
    /\ tlSingleton = [t \in Threads |-> [k \in ClosureTypes |-> NoInstance]]
    /\ instance = NoInstance
    /\ firstBound = NullCtor
    /\ multiBound = << >>
    /\ multiOnly = TRUE
    /\ last = Outcome("start", "none", FALSE, "none", FALSE, NoThrow, << >>, << >>)
    /\ pc = [t \in Threads |-> "idle"]
    /\ got = [t \in Threads |-> NotYet]
    /\ registry = "InternalServices"
    /\ _instance = NoInstance
    /\ kept = NotKept
    /\ destroyed = {}
    /\ DipInit
    /\ other = NoBindings
    /\ stack = << >>

\* What a binding call leaves behind: the stores, the history and the outcome.
Bound(op, r, constructor, consumerMode) ==
    /\ Len(r.dependencies) <= MaxBindings
    /\ dependency' = r.dependency
    /\ dependencies' = r.dependencies
    /\ firstBound' = IF /\ consumerMode = "getInstance"
                        /\ constructor # NullCtor
                        /\ r.thrown = NoThrow
                        /\ firstBound = NullCtor
                     THEN constructor ELSE firstBound
    /\ multiBound' = IF consumerMode = "getAllInstances" /\ constructor # NullCtor
                     THEN Append(multiBound, constructor) ELSE multiBound
    /\ multiOnly' = (multiOnly /\ ~(consumerMode = "both" /\ constructor # NullCtor))
    /\ last' = Outcome(op, consumerMode, constructor # NullCtor, "none", FALSE,
                       r.thrown, << >>, << >>)
    /\ UNCHANGED <<callSites, heap, singleton, tlSingleton, instance, raceVars, dipVars, other, stack>>

\* T::inject(constructor, consumerMode) with a user-supplied constructor function.
InjectConstructor(constructor, consumerMode) ==
    /\ Bound("inject", inject(dependency, dependencies, constructor, consumerMode),
             constructor, consumerMode)
    /\ UNCHANGED consumerVars

\* Variant: the binding call constructs the provider of a Singleton or
\* ThreadLocal closure at once, as SingletonServices' inject does.
InjectLifetimeEager(p, lt, consumerMode, a) ==
    LET c == Lambda(p, lt, consumerMode, a)
        r == injectLifetime(dependency, dependencies, c, consumerMode)
        n == IF lt = "Transient" \/ r.thrown # NoThrow THEN [mem |-> Memory]
             ELSE Invoke(c, "t1", Memory)
    IN  /\ Len(r.dependencies) <= MaxBindings
        /\ Len(n.mem.heap) <= MaxInstances
        /\ heap' = n.mem.heap
        /\ singleton' = n.mem.singleton
        /\ tlSingleton' = n.mem.tlSingleton
        /\ instance' = n.mem.instance
        /\ dependency' = r.dependency
        /\ dependencies' = r.dependencies
        /\ firstBound' = IF consumerMode = "getInstance" /\ r.thrown = NoThrow
                            /\ firstBound = NullCtor
                         THEN c ELSE firstBound
        /\ multiBound' = IF consumerMode = "getAllInstances"
                         THEN Append(multiBound, c) ELSE multiBound
        /\ multiOnly' = (multiOnly /\ consumerMode # "both")
        /\ last' = Outcome("injectLifetime", consumerMode, TRUE, "none", FALSE,
                           r.thrown, << >>, << >>)
        /\ UNCHANGED <<callSites, raceVars, dipVars, other, stack, consumerVars>>

\* T::inject<p, lt, consumerMode>(a)
InjectLifetime(p, lt, consumerMode, a) ==
    /\ Bound("injectLifetime",
             injectLifetime(dependency, dependencies, Lambda(p, lt, consumerMode, a),
                            consumerMode),
             Lambda(p, lt, consumerMode, a), consumerMode)
    /\ UNCHANGED consumerVars

\* What a reset leaves behind: both stores emptied, the memory untouched.
Cleared ==
    /\ dependency' = dependencyInjection(dependency, NullCtor, TRUE).dependency
    /\ dependencies' = dependencyAddition(dependencies, NullCtor, TRUE)
    /\ firstBound' = NullCtor
    /\ multiBound' = << >>
    /\ multiOnly' = TRUE
    /\ last' = Outcome("clear", "none", FALSE, "none", FALSE, NoThrow, << >>, << >>)
    /\ UNCHANGED <<callSites, heap, singleton, tlSingleton, instance, raceVars, dipVars, other, stack>>

\* T::clearInjectedInstancesForTesting()
ClearInjectedInstancesForTesting ==
    /\ Cleared
    /\ UNCHANGED consumerVars

\* What a resolution leaves behind (the stores as its call of
\* dependencyInjection / dependencyAddition left them).
Resolved(op, r, dep, deps, t, allowEmpty) ==
    /\ Len(r.mem.heap) <= MaxInstances
    /\ dependency' = dep
    /\ dependencies' = deps
    /\ heap' = r.mem.heap
    /\ singleton' = r.mem.singleton
    /\ tlSingleton' = r.mem.tlSingleton
    /\ instance' = r.mem.instance
    /\ last' = Outcome(op, "none", FALSE, t, allowEmpty, r.thrown, r.ret, r.invoked)
    /\ UNCHANGED <<callSites, firstBound, multiBound, multiOnly, raceVars, dipVars, other, stack>>

\* T::getInstance() called on thread t.
GetInstance(t) ==
    LET r == getInstance(dependency, t, Memory)
    IN  /\ Resolved("getInstance", r, r.dependency, dependencies, t, FALSE)
        /\ UNCHANGED consumerVars

\* T::getAllInstances(allowEmpty) called on thread t.
GetAllInstances(t, allowEmpty) ==
    LET r == getAllInstances(dependencies, allowEmpty, t, Memory)
    IN  /\ Resolved("getAllInstances", r, dependency, r.dependencies, t, allowEmpty)
        /\ UNCHANGED consumerVars

Next ==
    \/ \E c \in {NullCtor, global_constructor_function}, m \in ServiceConsumerMode :
          InjectConstructor(c, m)
    \/ \E c \in callSites :
          InjectLifetime(c.provider, c.lifetime, c.consumerMode, c.args)
    \/ ClearInjectedInstancesForTesting
    \/ \E t \in Threads : GetInstance(t)
    \/ \E t \in Threads, e \in BOOLEAN : GetAllInstances(t, e)

Spec == Init /\ [][Next]_vars

\* ---------------------------------------------------------------- threads racing in getInstance()
\* The same getInstance(), taken one step at a time so that calls made by
\* different threads interleave. The bindings are in place and stay as they are.

\* Variant: the static is initialised without a guard (a thread that finds
\* it uninitialised runs the initialiser even while another thread does).
StaticInitUnguarded(cell) ==
    IF cell # NoInstance /\ cell # Initializing THEN "initialized" ELSE "run"

\* Control reaching the declaration of a function-local static: skip the
\* initialiser when it has completed, wait while another thread runs it,
\* run it otherwise (C++11 dynamic initialisation of a block-scope static).
StaticInit(cell) ==
    IF cell # NoInstance /\ cell # Initializing THEN "initialized"
    ELSE IF cell = Initializing THEN "wait"
    ELSE "run"

\* The constructor keeps its object in a static shared by all threads.
SharedStatic(c) == c.kind = "function" \/ HasLifetime(c, "Singleton")

\* The shared static of constructor c, and the memory with it set to v.
StaticOf(c, mem) ==
    IF c.kind = "function" THEN mem.instance ELSE mem.singleton[ClosureType(c)]
WithStatic(c, mem, v) ==
    IF c.kind = "function" THEN [mem EXCEPT !.instance = v]
    ELSE [mem EXCEPT !.singleton[ClosureType(c)] = v]

\* The initialiser of the shared static of c: std::make_shared<...>(...).
Initializer(c, t, mem) ==
    IF c.kind = "function" THEN make_shared(mem, t, "MyServiceProvider", "global")
    ELSE make_shared(mem, t, c.provider, c.args)

SetMemory(mem) ==
    /\ Len(mem.heap) <= MaxInstances
    /\ heap' = mem.heap
    /\ singleton' = mem.singleton
    /\ tlSingleton' = mem.tlSingleton
    /\ instance' = mem.instance

RaceFrame == UNCHANGED <<callSites, dependency, dependencies, firstBound,
                         multiBound, multiOnly, last, consumerVars, dipVars, other, stack>>

\* One binding has been made: a state of Spec after its first binding call.
RaceInit ==
    /\ callSites \in Programs
    /\ \E c \in callSites \cup {global_constructor_function} :
       \E m \in ServiceConsumerMode :
          LET r == IF c.kind = "lambda"
                   THEN injectLifetime(NullCtor, << >>, c, m)
                   ELSE inject(NullCtor, << >>, c, m)
          IN  /\ c.kind = "lambda" => m = c.consumerMode
              /\ r.dependency # NullCtor
              /\ dependency = r.dependency
              /\ dependencies = r.dependencies
              /\ firstBound = IF m = "getInstance" THEN c ELSE NullCtor
              /\ multiBound = << >>
              /\ multiOnly = (m # "both")
              /\ last = Outcome(IF c.kind = "lambda" THEN "injectLifetime" ELSE "inject",
                                m, TRUE, "none", FALSE, r.thrown, << >>, << >>)
    /\ heap = << >>
    /\ singleton = [k \in ClosureTypes |-> NoInstance]
    /\ tlSingleton = [t \in Threads |-> [k \in ClosureTypes |-> NoInstance]]
    /\ instance = NoInstance
    /\ pc = [t \in Threads |-> "idle"]
    /\ got = [t \in Threads |-> NotYet]
    /\ registry = "InternalServices"
    /\ _instance = NoInstance
    /\ kept = NotKept
    /\ destroyed = {}
    /\ DipInit
    /\ other = NoBindings
    /\ stack = << >>

\* Thread t calls getInstance(): it reads the Slot and finds a constructor.
RaceCall(t) ==
    /\ pc[t] = "idle"
    /\ dependencyInjection(dependency, NullCtor, FALSE).dependency # NullCtor
    /\ pc' = [pc EXCEPT ![t] = "lambda"]
    /\ got' = [got EXCEPT ![t] = NotYet]
    /\ UNCHANGED <<heap, singleton, tlSingleton, instance>>
    /\ RaceFrame

\* Thread t runs the closure up to the initialiser of its static, or to its
\* end when it has no shared static or the static is initialised; it blocks
\* ("waiting") while another thread runs the initialiser.
RaceLambda(t) ==
    /\ pc[t] \in {"lambda", "waiting"}
    /\ IF SharedStatic(dependency)
       THEN IF StaticInit(StaticOf(dependency, Memory)) = "wait"
            THEN /\ pc[t] = "lambda"
                 /\ pc' = [pc EXCEPT ![t] = "waiting"]
                 /\ UNCHANGED <<heap, singleton, tlSingleton, instance, got>>
            ELSE IF StaticInit(StaticOf(dependency, Memory)) = "initialized"
            THEN /\ got' = [got EXCEPT ![t] = [handle |-> StaticOf(dependency, Memory),
                                               waited |-> pc[t] = "waiting"]]
                 /\ pc' = [pc EXCEPT ![t] = "returned"]
                 /\ UNCHANGED <<heap, singleton, tlSingleton, instance>>
            ELSE /\ SetMemory(WithStatic(dependency, Memory, Initializing))
                 /\ pc' = [pc EXCEPT ![t] = "initializing"]
                 /\ got' = got
       ELSE LET r == Invoke(dependency, t, Memory)
            IN  /\ SetMemory(r.mem)
                /\ got' = [got EXCEPT ![t] = [handle |-> r.ret, waited |-> FALSE]]
                /\ pc' = [pc EXCEPT ![t] = "returned"]
    /\ RaceFrame

\* Thread t completes the initialiser, stores the object in the static and
\* returns a copy of it.
RaceInitialized(t) ==
    /\ pc[t] = "initializing"
    /\ LET n == Initializer(dependency, t, Memory)
       IN  /\ SetMemory(WithStatic(dependency, n.mem, n.ret))
           /\ got' = [got EXCEPT ![t] = [handle |-> n.ret, waited |-> FALSE]]
    /\ pc' = [pc EXCEPT ![t] = "returned"]
    /\ RaceFrame

\* The caller has its handle; the thread may call again.
RaceReturn(t) ==
    /\ pc[t] = "returned"
    /\ pc' = [pc EXCEPT ![t] = "idle"]
    /\ UNCHANGED <<heap, singleton, tlSingleton, instance, got>>
    /\ RaceFrame

RaceNext ==
    \/ \E t \in Threads : RaceCall(t)
    \/ \E t \in Threads : RaceLambda(t)
    \/ \E t \in Threads : RaceInitialized(t)
    \/ \E t \in Threads : RaceReturn(t)

SpecRace == RaceInit /\ [][RaceNext]_vars

\* ---------------------------------------------------------------- SingletonServices
\* SingletonServices::DependencyManager<T>: one static Provider _instance.

\* Variant: the provider is constructed before the test of _instance.
SingletonServices_injectEager(inst, t, mem, p, a) ==
    LET n == make_shared(mem, t, p, a)
    IN  IF inst = NoInstance
        THEN [_instance |-> n.ret, mem |-> n.mem, thrown |-> NoThrow]
        ELSE [_instance |-> inst, mem |-> n.mem,
              thrown |-> service_provider_already_injected]

\* inject<ServiceProvider>(args) on thread t: constructs only when nothing is stored.
SingletonServices_inject(inst, t, mem, p, a) ==
    IF inst = NoInstance
    THEN LET n == make_shared(mem, t, p, a)
         IN  [_instance |-> n.ret, mem |-> n.mem, thrown |-> NoThrow]
    ELSE [_instance |-> inst, mem |-> mem, thrown |-> service_provider_already_injected]

\* inject(Provider alreadyCreatedInstance)
SingletonServices_injectInstance(inst, alreadyCreatedInstance) ==
    IF alreadyCreatedInstance = NoInstance
    THEN [_instance |-> inst, thrown |-> NoThrow]
    ELSE IF inst = NoInstance
    THEN [_instance |-> alreadyCreatedInstance, thrown |-> NoThrow]
    ELSE [_instance |-> inst, thrown |-> service_provider_already_injected]

\* clearInjectedInstancesForTesting(): _instance = nullptr
SingletonServices_clearInjectedInstancesForTesting(inst) == NoInstance

\* Variant: getInstance() returns _instance without the null test.
SingletonServices_getInstanceUnchecked(inst) == [thrown |-> NoThrow, ret |-> <<inst>>]

\* getInstance()
SingletonServices_getInstance(inst) ==
    IF inst = NoInstance
    THEN [thrown |-> missing_service_provider, ret |-> << >>]
    ELSE [thrown |-> NoThrow, ret |-> <<inst>>]

\* injected()
SingletonServices_injected(inst) == inst # NoInstance

\* ---------------------------------------------------------------- ownership
\* Provider is std::shared_ptr<T>: an object lives while some shared_ptr
\* refers to it. The shared_ptr objects of a program: the statics of the
\* constructors, SingletonServices' _instance, the consumer's variable and the
\* temporaries holding the value a call has just returned.

\* Variant: the copies handed to consumers do not share ownership (as with
\* a plain pointer to an object the manager owns).
OwnersManagerOnly(mem, inst, k, ret) ==
    {mem.singleton[x] : x \in ClosureTypes}
      \cup {mem.tlSingleton[x[1]][x[2]] : x \in Threads \X ClosureTypes}
      \cup {mem.instance, inst}

\* The objects some shared_ptr refers to (those whose use_count() is not 0).
Owners(mem, inst, k, ret) ==
    {mem.singleton[x] : x \in ClosureTypes}
      \cup {mem.tlSingleton[x[1]][x[2]] : x \in Threads \X ClosureTypes}
      \cup {mem.instance, inst, k.handle}
      \cup {ret[i] : i \in 1..Len(ret)}

\* The step's effect on the objects: one whose last shared_ptr is gone is destroyed.
Owned ==
    destroyed' = (1..Len(heap')) \ Owners(Memory', _instance', kept', last'.ret)

\* The consumer's variable after a reset of the manager: it holds what it held.
AfterReset(k) == IF k.handle # NoInstance THEN [k EXCEPT !.reset = TRUE] ELSE k

\* ---------------------------------------------------------------- a consumer keeping its handle
\* The programs of SpecConsumer use one of the two managers for T, and their
\* consumer keeps a copy of a handle it was returned in a variable of its own.

\* Their lifetime-inject call site (InternalServices): a `both`-mode one.
ConsumerPrograms ==
    {{Lambda(p, lt, "both", "a")} : p \in Providers, lt \in Lifetime}

InitConsumer ==
    /\ registry \in Registries
    /\ IF registry = "InternalServices" THEN callSites \in ConsumerPrograms
                                         ELSE callSites = {}
    /\ dependency = NullCtor
    /\ dependencies = << >>
    /\ heap = << >>
    /\ singleton = [k \in ClosureTypes |-> NoInstance]
    /\ tlSingleton = [t \in Threads |-> [k \in ClosureTypes |-> NoInstance]]
    /\ instance = NoInstance
    /\ firstBound = NullCtor
    /\ multiBound = << >>
    /\ multiOnly = TRUE
    /\ last = Outcome("start", "none", FALSE, "none", FALSE, NoThrow, << >>, << >>)
    /\ pc = [t \in Threads |-> "idle"]
    /\ got = [t \in Threads |-> NotYet]
    /\ _instance = NoInstance
    /\ kept = NotKept
    /\ destroyed = {}
    /\ DipInit
    /\ other = NoBindings
    /\ stack = << >>

ConsumerInjectConstructor(constructor, consumerMode) ==
    /\ registry = "InternalServices"
    /\ Bound("inject", inject(dependency, dependencies, constructor, consumerMode),
             constructor, consumerMode)
    /\ UNCHANGED <<registry, _instance, kept>>
    /\ Owned

ConsumerInjectLifetime(p, lt, consumerMode, a) ==
    /\ registry = "InternalServices"
    /\ Bound("injectLifetime",
             injectLifetime(dependency, dependencies, Lambda(p, lt, consumerMode, a),
                            consumerMode),
             Lambda(p, lt, consumerMode, a), consumerMode)
    /\ UNCHANGED <<registry, _instance, kept>>
    /\ Owned

ConsumerClear ==
    /\ registry = "InternalServices"
    /\ Cleared
    /\ kept' = AfterReset(kept)
    /\ UNCHANGED <<registry, _instance>>
    /\ Owned

ConsumerGetInstance(t) ==
    LET r == getInstance(dependency, t, Memory)
    IN  /\ registry = "InternalServices"
        /\ Resolved("getInstance", r, r.dependency, dependencies, t, FALSE)
        /\ UNCHANGED <<registry, _instance, kept>>
        /\ Owned

ConsumerGetAllInstances(t, allowEmpty) ==
    LET r == getAllInstances(dependencies, allowEmpty, t, Memory)
    IN  /\ registry = "InternalServices"
        /\ Resolved("getAllInstances", r, dependency, r.dependencies, t, allowEmpty)
        /\ UNCHANGED <<registry, _instance, kept>>
        /\ Owned

\* The frame of a SingletonServices call: the InternalServices stores and
\* the statics of its constructors are not involved.
SingletonFrame ==
    UNCHANGED <<callSites, dependency, dependencies, singleton, tlSingleton, instance,
                firstBound, multiBound, multiOnly, raceVars, registry, dipVars, other, stack>>

\* SingletonServices: DependencyManager<T>::inject<p>(a) on thread t.
SingletonInject(t, p, a) ==
    LET r == SingletonServices_inject(_instance, t, Memory, p, a)
    IN  /\ registry = "SingletonServices"
        /\ Len(r.mem.heap) <= MaxInstances
        /\ _instance' = r._instance
        /\ heap' = r.mem.heap
        /\ last' = Outcome("injectProvider", "getInstance", TRUE, t, FALSE,
                           r.thrown, << >>, << >>)
        /\ kept' = kept
        /\ SingletonFrame
        /\ Owned

\* SingletonServices: DependencyManager<T>::inject(alreadyCreatedInstance), the
\* argument being a null Provider or the consumer's.
SingletonInjectInstance(alreadyCreatedInstance) ==
    LET r == SingletonServices_injectInstance(_instance, alreadyCreatedInstance)
    IN  /\ registry = "SingletonServices"
        /\ alreadyCreatedInstance \in {NoInstance, kept.handle}
        /\ _instance' = r._instance
        /\ last' = Outcome("injectInstance", "getInstance",
                           alreadyCreatedInstance # NoInstance, "none", FALSE,
                           r.thrown, << >>, << >>)
        /\ UNCHANGED <<heap, kept>>
        /\ SingletonFrame
        /\ Owned

\* SingletonServices: DependencyManager<T>::clearInjectedInstancesForTesting()
SingletonClear ==
    /\ registry = "SingletonServices"
    /\ _instance' = SingletonServices_clearInjectedInstancesForTesting(_instance)
    /\ last' = Outcome("clear", "none", FALSE, "none", FALSE, NoThrow, << >>, << >>)
    /\ kept' = AfterReset(kept)
    /\ UNCHANGED heap
    /\ SingletonFrame
    /\ Owned

\* SingletonServices: DependencyManager<T>::getInstance() on thread t.
SingletonGetInstance(t) ==
    LET r == SingletonServices_getInstance(_instance)
    IN  /\ registry = "SingletonServices"
        /\ last' = Outcome("getInstance", "none", FALSE, t, FALSE, r.thrown, r.ret, << >>)
        /\ UNCHANGED <<heap, _instance, kept>>
        /\ SingletonFrame
        /\ Owned

\* The frame of a step of the consumer's own code.
ConsumerFrame ==
    UNCHANGED <<callSites, dependency, dependencies, singleton, tlSingleton, instance,
                firstBound, multiBound, multiOnly, raceVars, registry, _instance, dipVars, other, stack>>

\* auto provider = <the i-th handle just returned>: the consumer keeps a copy.
Keep(i) ==
    /\ last.op \in {"getInstance", "getAllInstances"}
    /\ last.thrown = NoThrow
    /\ i \in 1..Len(last.ret)
    /\ kept' = [handle |-> last.ret[i], op |-> last.op, thread |-> last.thread,
                recipe |-> IF registry = "InternalServices" THEN last.invoked[i] ELSE NullCtor,
                reset |-> FALSE]
    /\ last' = Outcome("keep", "none", FALSE, last.thread, FALSE, NoThrow, << >>, << >>)
    /\ UNCHANGED heap
    /\ ConsumerFrame
    /\ Owned

\* provider = std::make_shared<p>(a): the consumer constructs a provider itself.
MakeProvider(t, p, a) ==
    LET n == make_shared(Memory, t, p, a)
    IN  /\ registry = "SingletonServices"
        /\ Len(n.mem.heap) <= MaxInstances
        /\ heap' = n.mem.heap
        /\ kept' = [handle |-> n.ret, op |-> "make_shared", thread |-> t,
                    recipe |-> NullCtor, reset |-> FALSE]
        /\ last' = Outcome("make_shared", "none", FALSE, t, FALSE, NoThrow, << >>, << >>)
        /\ ConsumerFrame
        /\ Owned

\* provider.reset(): the consumer gives its copy up.
Drop ==
    /\ kept # NotKept
    /\ kept' = NotKept
    /\ last' = Outcome("drop", "none", FALSE, "none", FALSE, NoThrow, << >>, << >>)
    /\ UNCHANGED heap
    /\ ConsumerFrame
    /\ Owned

NextConsumer ==
    \/ \E m \in ServiceConsumerMode :
          ConsumerInjectConstructor(global_constructor_function, m)
    \/ \E c \in callSites :
          ConsumerInjectLifetime(c.provider, c.lifetime, c.consumerMode, c.args)
    \/ ConsumerClear
    \/ \E t \in Threads : ConsumerGetInstance(t)
    \/ \E t \in Threads : ConsumerGetAllInstances(t, FALSE)
    \/ \E t \in Threads, p \in Providers, a \in Args : SingletonInject(t, p, a)
    \/ \E h \in {NoInstance, kept.handle} : SingletonInjectInstance(h)
    \/ SingletonClear
    \/ \E t \in Threads : SingletonGetInstance(t)
    \/ \E i \in 1..MaxBindings + 1 : Keep(i)
    \/ \E t \in Threads, p \in Providers, a \in Args : MakeProvider(t, p, a)
    \/ Drop

SpecConsumer == InitConsumer /\ [][NextConsumer]_vars

\* ---------------------------------------------------------------- rebinding after a reset
\* Programs with two call sites of one instantiation of the lifetime inject,
\* inject<p, lt, getInstance>("a") and inject<p, lt, getInstance>("b"): what a
\* test that resets the manager and binds the provider anew is made of.
RebindPrograms ==
    {{Lambda(p, lt, "getInstance", a) : a \in Args} : p \in Providers, lt \in Lifetime}

InitRebind ==
    /\ registry = "InternalServices"
    /\ callSites \in RebindPrograms
    /\ dependency = NullCtor
    /\ dependencies = << >>
    /\ heap = << >>
    /\ singleton = [k \in ClosureTypes |-> NoInstance]
    /\ tlSingleton = [t \in Threads |-> [k \in ClosureTypes |-> NoInstance]]
    /\ instance = NoInstance
    /\ firstBound = NullCtor
    /\ multiBound = << >>
    /\ multiOnly = TRUE
    /\ last = Outcome("start", "none", FALSE, "none", FALSE, NoThrow, << >>, << >>)
    /\ pc = [t \in Threads |-> "idle"]
    /\ got = [t \in Threads |-> NotYet]
    /\ _instance = NoInstance
    /\ kept = NotKept
    /\ destroyed = {}
    /\ DipInit
    /\ other = NoBindings
    /\ stack = << >>

NextRebind ==
    \/ \E m \in {"getInstance", "getAllInstances"} :
          ConsumerInjectConstructor(global_constructor_function, m)
    \/ \E c \in callSites :
          ConsumerInjectLifetime(c.provider, c.lifetime, c.consumerMode, c.args)
    \/ ConsumerClear
    \/ \E t \in Threads : ConsumerGetInstance(t)
    \/ \E t \in Threads : ConsumerGetAllInstances(t, FALSE)
    \/ \E i \in 1..MaxBindings + 1 : Keep(i)
    \/ Drop

SpecRebind == InitRebind /\ [][NextRebind]_vars

\* ---------------------------------------------------------------- dip.hpp: functions
\* Assertions are taken as compiled in (no NDEBUG): a failed assert ends the
\* program, and `abort` of the call's outcome is its message.

\* What acquire and release functions read and write.
DipMemory == [statics |-> statics, news |-> news, deleted |-> deleted,
              providers |-> providers, round |-> round, acquisitions |-> acquisitions]

\* The initialisation of a static (thread_local) Provider p(args...): on the
\* first pass of control through its declaration (on the thread) only.
StaticProvider(ref, a, mem) ==
    IF \E o \in mem.statics : o.ref = ref
    THEN mem
    ELSE [mem EXCEPT !.statics = @ \cup {[ref |-> ref, args |-> a]}]

\* Variant: the lambda of inject_singleton / add_singleton returns a new object.
SingletonAcquireNew(fn, t, mem) ==
    [mem |-> [mem EXCEPT !.news = Append(@, [args |-> fn.args, thread |-> t])],
     ret |-> NewRef(Len(mem.news) + 1)]

\* The lambda of inject_singleton / add_singleton: static Provider p(args...); return &p;
SingletonAcquire(fn, t, mem) ==
    [mem |-> StaticProvider(StaticRef(fn.site), fn.args, mem), ret |-> StaticRef(fn.site)]

\* The lambda of inject_thread_singleton / add_thread_singleton, and the
\* acquire lambda of add_transient: static thread_local Provider p(args...); return &p;
ThreadSingletonAcquire(fn, t, mem) ==
    [mem |-> StaticProvider(ThreadLocalRef(fn.site, t), fn.args, mem),
     ret |-> ThreadLocalRef(fn.site, t)]

\* Variant: the lambda of inject_transient keeps one provider per thread.
TransientAcquireThreadLocal(fn, t, mem) ==
    [mem |-> StaticProvider(ThreadLocalRef(fn.site, t), fn.args, mem),
     ret |-> ThreadLocalRef(fn.site, t)]

\* The acquire lambda of inject_transient: return new Provider(args...);
TransientAcquire(fn, t, mem) ==
    [mem |-> [mem EXCEPT !.news = Append(@, [args |-> fn.args, thread |-> t])],
     ret |-> NewRef(Len(mem.news) + 1)]

\* The history of RoundRobin::acquire after it returned ref.
Acquired(log, ref) == IF Len(log) >= 2 * PoolSize THEN <<ref>> ELSE Append(log, ref)

\* Variant: the cursor is not advanced.
RoundRobin_acquireStuck(t, mem) ==
    [mem |-> [mem EXCEPT !.acquisitions = Acquired(@, mem.providers[mem.round])],
     ret |-> mem.providers[mem.round]]

\* RoundRobin::acquire()
RoundRobin_acquireFn(t, mem) ==
    [mem |-> [mem EXCEPT !.round = IF mem.round + 1 >= PoolSize THEN 0 ELSE mem.round + 1,
                         !.acquisitions = Acquired(@, mem.providers[mem.round])],
     ret |-> mem.providers[mem.round]]

\* RoundRobin::initialize(): providers[i] = new MyServiceProvider(i), each
\* entry asserted null before.
RoundRobin_initialize(mem) ==
    IF \E i \in 0..PoolSize - 1 : mem.providers[i] # NullRef
    THEN [abort |-> "providers[i] == nullptr", mem |-> mem]
    ELSE [abort |-> NoAbort,
          mem |-> [mem EXCEPT !.providers = [i \in 0..PoolSize - 1 |-> PoolRef(i)]]]

\* injector.acquire() on thread t.
Acquire(fn, t, mem) ==
    IF fn.kind = "function" THEN RoundRobin_acquireFn(t, mem)
    ELSE IF fn.site \in {"inject_singleton", "add_singleton"} THEN SingletonAcquire(fn, t, mem)
    ELSE IF fn.site = "inject_transient" THEN TransientAcquire(fn, t, mem)
    ELSE ThreadSingletonAcquire(fn, t, mem)

\* delete provider: defined for an object created by `new` and not yet
\* deleted; anything else is undefined behaviour (ub).
Delete(ref, mem) ==
    [mem |-> [mem EXCEPT !.deleted = @ \cup {ref}],
     ub |-> ~(ref.kind \in {"new", "pool"} /\ ref \notin mem.deleted)]

\* injector.release(ref): the only release functions are the delete lambdas.
Release(fn, ref, mem) == Delete(ref, mem)

\* Variant: the constructor does not test what acquire returned.
instance_ctorUnchecked(injector, t, mem) ==
    IF injector.acquire = NullFn
    THEN [abort |-> "Missing dependency injection", _instance |-> NullRef,
          acquired |-> << >>, mem |-> mem]
    ELSE LET r == Acquire(injector.acquire, t, mem)
         IN  [abort |-> NoAbort, _instance |-> r.ret,
              acquired |-> <<[fn |-> injector.acquire, ret |-> r.ret]>>, mem |-> r.mem]

\* instance<Service>::instance() on thread t.
instance_ctor(injector, t, mem) ==
    IF injector.acquire = NullFn
    THEN [abort |-> "Missing dependency injection", _instance |-> NullRef,
          acquired |-> << >>, mem |-> mem]
    ELSE LET r == Acquire(injector.acquire, t, mem)
         IN  IF r.ret = NullRef
             THEN [abort |-> "An injector retrieved a null provider", _instance |-> NullRef,
                   acquired |-> <<[fn |-> injector.acquire, ret |-> r.ret]>>, mem |-> r.mem]
             ELSE [abort |-> NoAbort, _instance |-> r.ret,
                   acquired |-> <<[fn |-> injector.acquire, ret |-> r.ret]>>, mem |-> r.mem]

\* Variant: the destructor releases nothing.
instance_dtorLeak(injector, ref, mem) ==
    [released |-> << >>, mem |-> mem, ub |-> FALSE]

\* instance<Service>::~instance(): release through the static _injector.
instance_dtor(injector, ref, mem) ==
    IF injector.release # NullFn
    THEN LET r == Release(injector.release, ref, mem)
         IN  [released |-> <<[fn |-> injector.release, ref |-> ref]>>,
              mem |-> r.mem, ub |-> r.ub]
    ELSE [released |-> << >>, mem |-> mem, ub |-> FALSE]

\* The first assertion of inject and inject_*: nothing is installed.
NotInjected(cur) == cur.acquire = NullFn /\ cur.release = NullFn

\* Variant: the installed injector is replaced without a test.
instance_injectReplace(cur, injector) ==
    IF injector.acquire = NullFn
    THEN [abort |-> "Invalid injector", _injector |-> cur]
    ELSE [abort |-> NoAbort, _injector |-> injector]

\* instance<Service>::inject(injector)
instance_inject(cur, injector) ==
    IF ~NotInjected(cur)
    THEN [abort |-> "Dependency already injected", _injector |-> cur]
    ELSE IF injector.acquire = NullFn
    THEN [abort |-> "Invalid injector", _injector |-> cur]
    ELSE [abort |-> NoAbort, _injector |-> injector]

\* instance<Service>::inject_singleton<Provider>(args)
inject_singleton(cur, a) ==
    IF ~NotInjected(cur)
    THEN [abort |-> "Dependency already injected", _injector |-> cur]
    ELSE [abort |-> NoAbort,
          _injector |-> Injector(AcquireLambda("inject_singleton", a), NullFn)]

\* instance<Service>::inject_thread_singleton<Provider>(args)
inject_thread_singleton(cur, a) ==
    IF ~NotInjected(cur)
    THEN [abort |-> "Dependency already injected", _injector |-> cur]
    ELSE [abort |-> NoAbort,
          _injector |-> Injector(AcquireLambda("inject_thread_singleton", a), NullFn)]

\* instance<Service>::inject_transient<Provider>(args)
inject_transient(cur, a) ==
    IF ~NotInjected(cur)
    THEN [abort |-> "Dependency already injected", _injector |-> cur]
    ELSE [abort |-> NoAbort,
          _injector |-> Injector(AcquireLambda("inject_transient", a),
                                 ReleaseDelete("inject_transient"))]

\* instance<Service>::clear_injection()
clear_injection(cur) == EmptyInjector

\* Variant: the injectors are visited from the last to the first.
RECURSIVE AcquireEachReversed(_, _, _)
AcquireEachReversed(injectors, t, mem) ==
    IF injectors = << >>
    THEN [abort |-> NoAbort, _instances |-> << >>, acquired |-> << >>, mem |-> mem]
    ELSE LET injector == injectors[Len(injectors)]
             r == Acquire(injector.acquire, t, mem)
             call == [fn |-> injector.acquire, ret |-> r.ret]
         IN  IF r.ret = NullRef
             THEN [abort |-> "An injector retrieved a null provider",
                   _instances |-> << >>, acquired |-> <<call>>, mem |-> r.mem]
             ELSE LET n == AcquireEachReversed(SubSeq(injectors, 1, Len(injectors) - 1),
                                               t, r.mem)
                  IN  [abort |-> n.abort,
                       _instances |-> <<r.ret>> \o n._instances,
                       acquired |-> <<call>> \o n.acquired, mem |-> n.mem]

\* for (auto injector : _injectors) { assert; acquire; assert; push_back }
RECURSIVE AcquireEach(_, _, _)
AcquireEach(injectors, t, mem) ==
    IF injectors = << >>
    THEN [abort |-> NoAbort, _instances |-> << >>, acquired |-> << >>, mem |-> mem]
    ELSE LET injector == Head(injectors)
         IN  IF injector.acquire = NullFn
             THEN [abort |-> "Missing dependency injection", _instances |-> << >>,
                   acquired |-> << >>, mem |-> mem]
             ELSE LET r == Acquire(injector.acquire, t, mem)
                      call == [fn |-> injector.acquire, ret |-> r.ret]
                  IN  IF r.ret = NullRef
                      THEN [abort |-> "An injector retrieved a null provider",
                            _instances |-> << >>, acquired |-> <<call>>, mem |-> r.mem]
                      ELSE LET n == AcquireEach(Tail(injectors), t, r.mem)
                           IN  [abort |-> n.abort,
                                _instances |-> <<r.ret>> \o n._instances,
                                acquired |-> <<call>> \o n.acquired, mem |-> n.mem]

\* Variant: an empty injector list yields an empty set.
instance_set_ctorAllowEmpty(injectors, t, mem) == AcquireEach(injectors, t, mem)

\* instance_set<Service>::instance_set() on thread t.
instance_set_ctor(injectors, t, mem) ==
    IF injectors = << >>
    THEN [abort |-> "No dependency injections", _instances |-> << >>,
          acquired |-> << >>, mem |-> mem]
    ELSE AcquireEach(injectors, t, mem)

\* for (i = 0; i < _injectors.size(); i++)
\*     if (_injectors[i].release) _injectors[i].release(_instances.at(i));
\* from index i (counted from 1 here) on. at() throws std::out_of_range past
\* the end of _instances, and the destructor is noexcept: std::terminate.
RECURSIVE ReleaseEach(_, _, _, _)
ReleaseEach(i, injectors, instances, mem) ==
    IF i > Len(injectors)
    THEN [abort |-> NoAbort, released |-> << >>, mem |-> mem, ub |-> FALSE]
    ELSE IF injectors[i].release = NullFn
    THEN ReleaseEach(i + 1, injectors, instances, mem)
    ELSE IF i > Len(instances)
    THEN [abort |-> "std::terminate", released |-> << >>, mem |-> mem, ub |-> FALSE]
    ELSE LET r == Release(injectors[i].release, instances[i], mem)
             n == ReleaseEach(i + 1, injectors, instances, r.mem)
         IN  [abort |-> n.abort,
              released |-> <<[fn |-> injectors[i].release, ref |-> instances[i]]>>
                             \o n.released,
              mem |-> n.mem, ub |-> r.ub \/ n.ub]

\* instance_set<Service>::~instance_set(): release through the static _injectors.
instance_set_dtor(injectors, instances, mem) == ReleaseEach(1, injectors, instances, mem)

\* instance_set<Service>::add(injector)
instance_set_add(injectors, injector) ==
    IF injector.acquire = NullFn
    THEN [abort |-> "Invalid injector", _injectors |-> injectors]
    ELSE [abort |-> NoAbort, _injectors |-> Append(injectors, injector)]

\* instance_set<Service>::add_singleton<Provider>(args)
add_singleton(injectors, a) ==
    instance_set_add(injectors, Injector(AcquireLambda("add_singleton", a), NullFn))

\* instance_set<Service>::add_thread_singleton<Provider>(args)
add_thread_singleton(injectors, a) ==
    instance_set_add(injectors, Injector(AcquireLambda("add_thread_singleton", a), NullFn))

\* instance_set<Service>::add_transient<Provider>(args): the acquire lambda
\* returns the address of a static thread_local Provider, the release lambda deletes.
add_transient(injectors, a) ==
    instance_set_add(injectors, Injector(AcquireLambda("add_transient", a),
                                         ReleaseDelete("add_transient")))

\* instance_set<Service>::clear_injections()
clear_injections(injectors) == << >>

\* ---------------------------------------------------------------- dip.hpp: state machine
\* A program that uses dip::instance<Service> or dip::instance_set<Service>
\* for its Service, with the round-robin pool as its custom injector.
DipConsumers == {"instance", "instance_set"}

\* The ways of installing an injector: the custom one (inject / add) and the
\* three life cycles (inject_* / add_*).
Installers == {"custom", "singleton", "thread_singleton", "transient"}

\* The programs considered: the text of each holds one installation
\* statement, or the two of a singleton and of a transient provider, which
\* it may execute any number of times.
DipPrograms == {{i} : i \in Installers} \cup {{"singleton", "transient"}}

\* The constructor arguments of the providers.
DipArgs == {"a"}

InitDip ==
    /\ registry \in DipConsumers
    /\ callSites \in DipPrograms
    /\ dependency = NullCtor
    /\ dependencies = << >>
    /\ heap = << >>
    /\ singleton = [k \in ClosureTypes |-> NoInstance]
    /\ tlSingleton = [t \in Threads |-> [k \in ClosureTypes |-> NoInstance]]
    /\ instance = NoInstance
    /\ firstBound = NullCtor
    /\ multiBound = << >>
    /\ multiOnly = TRUE
    /\ last = Outcome("start", "none", FALSE, "none", FALSE, NoThrow, << >>, << >>)
    /\ pc = [t \in Threads |-> "idle"]
    /\ got = [t \in Threads |-> NotYet]
    /\ _instance = NoInstance
    /\ kept = NotKept
    /\ destroyed = {}
    /\ DipInit
    /\ other = NoBindings
    /\ stack = << >>

\* The frame of a dip call: the managers of InternalServices.hpp are not involved.
DipFrame ==
    UNCHANGED <<callSites, dependency, dependencies, heap, singleton, tlSingleton, instance,
                firstBound, multiBound, multiOnly, last, raceVars, consumerVars, other, stack>>

\* What a dip call leaves behind: the memory of the acquire / release
\* functions and the outcome. A failed assertion and std::terminate end the
\* program; so may undefined behaviour (crash), or it may go unnoticed.
DipCall(op, scope, t, abort, acquired, released, ub, crash, mem) ==
    /\ event.abort = NoAbort
    /\ Len(mem.news) <= MaxInstances
    /\ crash => ub
    /\ statics' = mem.statics
    /\ news' = mem.news
    /\ deleted' = mem.deleted
    /\ providers' = mem.providers
    /\ round' = mem.round
    /\ acquisitions' = mem.acquisitions
    /\ event' = [op |-> op, scope |-> scope, thread |-> t,
                 abort |-> IF abort = NoAbort /\ crash THEN "crash" ELSE abort,
                 acquired |-> acquired, released |-> released, ub |-> ub]
    /\ DipFrame

\* An installation call of dip::instance<Service>.
Installed(op, r) ==
    /\ registry = "instance"
    /\ _injector' = r._injector
    /\ DipCall(op, "none", "none", r.abort, << >>, << >>, FALSE, FALSE, DipMemory)
    /\ UNCHANGED <<_injectors, handles, sets>>

\* dip::inject<Service>(injector)
Inject(injector) == Installed("inject", instance_inject(_injector, injector))

\* dip::inject_singleton<Service, Provider>(a)
InjectSingleton(a) == Installed("inject_singleton", inject_singleton(_injector, a))

\* dip::inject_thread_singleton<Service, Provider>(a)
InjectThreadSingleton(a) ==
    Installed("inject_thread_singleton", inject_thread_singleton(_injector, a))

\* dip::inject_transient<Service, Provider>(a)
InjectTransient(a) == Installed("inject_transient", inject_transient(_injector, a))

\* dip::instance<Service>::clear_injection()
ClearInjection == Installed("clear_injection",
                            [abort |-> NoAbort, _injector |-> clear_injection(_injector)])

\* RoundRobin::initialize()
RoundRobinInitialize ==
    LET r == RoundRobin_initialize(DipMemory)
    IN  /\ DipCall("RoundRobin::initialize", "none", "none", r.abort, << >>, << >>,
                   FALSE, FALSE, r.mem)
        /\ UNCHANGED <<_injector, _injectors, handles, sets>>

\* dip::instance<Service> s; declared on thread t ("x" is declared first).
\* `by` remembers the injector that was installed then.
Construct(s, t) ==
    LET r == instance_ctor(_injector, t, DipMemory)
    IN  /\ registry = "instance"
        /\ ~handles[s].alive
        /\ s = "y" => handles["x"].alive
        /\ handles' = IF r.abort = NoAbort
                      THEN [handles EXCEPT ![s] = [alive |-> TRUE, _instance |-> r._instance,
                                                   thread |-> t, by |-> _injector]]
                      ELSE handles
        /\ DipCall("instance", s, t, r.abort, r.acquired, << >>, FALSE, FALSE, r.mem)
        /\ UNCHANGED <<_injector, _injectors, sets>>

\* The dip::instance<Service> s goes out of scope.
Destroy(s, crash) ==
    LET r == instance_dtor(_injector, handles[s]._instance, DipMemory)
    IN  /\ registry = "instance"
        /\ handles[s].alive
        /\ handles' = [handles EXCEPT ![s] = NoObject]
        /\ DipCall("~instance", s, handles[s].thread, NoAbort, << >>, r.released,
                   r.ub, crash, r.mem)
        /\ UNCHANGED <<_injector, _injectors, sets>>

\* An installation call of dip::instance_set<Service>.
Added(op, r) ==
    /\ registry = "instance_set"
    /\ Len(r._injectors) <= MaxBindings
    /\ _injectors' = r._injectors
    /\ DipCall(op, "none", "none", r.abort, << >>, << >>, FALSE, FALSE, DipMemory)
    /\ UNCHANGED <<_injector, handles, sets>>

\* dip::add<Service>(injector)
Add(injector) == Added("add", instance_set_add(_injectors, injector))

\* dip::add_singleton<Service, Provider>(a)
AddSingleton(a) == Added("add_singleton", add_singleton(_injectors, a))

\* dip::add_thread_singleton<Service, Provider>(a)
AddThreadSingleton(a) == Added("add_thread_singleton", add_thread_singleton(_injectors, a))

\* dip::add_transient<Service, Provider>(a)
AddTransient(a) == Added("add_transient", add_transient(_injectors, a))

\* dip::instance_set<Service>::clear_injections()
ClearInjections == Added("clear_injections",
                         [abort |-> NoAbort, _injectors |-> clear_injections(_injectors)])

\* dip::instance_set<Service> s; declared on thread t ("x" is declared first).
\* `by` remembers the injectors that were installed then.
ConstructSet(s, t) ==
    LET r == instance_set_ctor(_injectors, t, DipMemory)
    IN  /\ registry = "instance_set"
        /\ ~sets[s].alive
        /\ s = "y" => sets["x"].alive
        /\ sets' = IF r.abort = NoAbort
                   THEN [sets EXCEPT ![s] = [alive |-> TRUE, _instances |-> r._instances,
                                             thread |-> t, by |-> _injectors]]
                   ELSE sets
        /\ DipCall("instance_set", s, t, r.abort, r.acquired, << >>, FALSE, FALSE, r.mem)
        /\ UNCHANGED <<_injector, _injectors, handles>>

\* The dip::instance_set<Service> s goes out of scope.
DestroySet(s, crash) ==
    LET r == instance_set_dtor(_injectors, sets[s]._instances, DipMemory)
    IN  /\ registry = "instance_set"
        /\ sets[s].alive
        /\ sets' = [sets EXCEPT ![s] = NoObject]
        /\ DipCall("~instance_set", s, sets[s].thread, r.abort, << >>, r.released,
                   r.ub, crash, r.mem)
        /\ UNCHANGED <<_injector, _injectors, handles>>

NextDip ==
    \/ "custom" \in callSites /\ Inject(custom_injector)
    \/ Inject(EmptyInjector)
    \/ \E a \in DipArgs : "singleton" \in callSites /\ InjectSingleton(a)
    \/ \E a \in DipArgs : "thread_singleton" \in callSites /\ InjectThreadSingleton(a)
    \/ \E a \in DipArgs : "transient" \in callSites /\ InjectTransient(a)
    \/ ClearInjection
    \/ "custom" \in callSites /\ RoundRobinInitialize
    \/ \E s \in Scopes, t \in Threads : Construct(s, t)
    \/ \E s \in Scopes, crash \in BOOLEAN : Destroy(s, crash)
    \/ "custom" \in callSites /\ Add(custom_injector)
    \/ Add(EmptyInjector)
    \/ \E a \in DipArgs : "singleton" \in callSites /\ AddSingleton(a)
    \/ \E a \in DipArgs : "thread_singleton" \in callSites /\ AddThreadSingleton(a)
    \/ \E a \in DipArgs : "transient" \in callSites /\ AddTransient(a)
    \/ ClearInjections
    \/ \E s \in Scopes, t \in Threads : ConstructSet(s, t)
    \/ \E s \in Scopes, crash \in BOOLEAN : DestroySet(s, crash)

SpecDip == InitDip /\ [][NextDip]_vars

\* ---------------------------------------------------------------- properties
\* In a step that is not a stuttering step, last' is the outcome of the call
\* the step made, and the unprimed variables are the state it was made in.
BindOps == {"inject", "injectLifetime"}

\* The step is a binding call in consumer mode m with a non-null constructor.
BindingStep(m) ==
    /\ last'.op \in BindOps
    /\ last'.mode = m
    /\ last'.nonnull

\* Handle h is what constructor c yields on thread t in the present memory:
\* the static instance of the function, a fresh-built object carrying the
\* closure's provider and arguments, or the closure type's memoised object.
ProducedBy(h, c, t) ==
    /\ h \in 1..Len(heap)
    /\ c.kind = "function" => h = instance
    /\ (c.kind = "lambda" /\ c.lifetime = "Transient") =>
           (heap[h].provider = c.provider /\ heap[h].args = c.args)
    /\ (c.kind = "lambda" /\ c.lifetime = "Singleton") => h = singleton[ClosureType(c)]
    /\ (c.kind = "lambda" /\ c.lifetime = "ThreadLocal") =>
           h = tlSingleton[t][ClosureType(c)]

\* C1: once a getInstance-mode inject of a non-null constructor has succeeded
\* and no reset happened since, every further getInstance-mode inject of a
\* constructor raises service_provider_already_injected, the Slot keeps the
\* first constructor, and getInstance() calls exactly that first constructor.
C1_DuplicateInjectRaises ==
    [][ /\ (firstBound # NullCtor /\ BindingStep("getInstance")) =>
              /\ last'.thrown = service_provider_already_injected
              /\ firstBound' = firstBound
        /\ firstBound' # NullCtor => dependency' = firstBound'
        /\ (firstBound' # NullCtor /\ last'.op = "getInstance") =>
              /\ last'.thrown = NoThrow
              /\ last'.invoked = <<firstBound'>>
      ]_vars

\* A second getInstance-mode inject was refused while the first binding is stored.
C1_Witness ==
    /\ firstBound # NullCtor
    /\ dependency = firstBound
    /\ last.op \in BindOps /\ last.mode = "getInstance" /\ last.nonnull
    /\ last.thrown = service_provider_already_injected

\* C2: getInstance() on an empty Slot raises missing_service_provider, calls
\* no constructor, and leaves the Slot, the Collection and the memory as they were.
C2_GetInstanceUnbound ==
    [][ (dependency = NullCtor /\ last'.op = "getInstance") =>
            /\ last'.thrown = missing_service_provider
            /\ last'.invoked = << >>
            /\ last'.ret = << >>
            /\ dependency' = dependency
            /\ dependencies' = dependencies
            /\ <<heap, singleton, tlSingleton, instance>>' =
                   <<heap, singleton, tlSingleton, instance>>
      ]_vars

\* getInstance() was called on an empty Slot while the Collection holds a recipe.
C2_Witness ==
    /\ last.op = "getInstance"
    /\ last.thrown = missing_service_provider
    /\ dependency = NullCtor
    /\ dependencies # << >>

\* C3: getAllInstances(allowEmpty) raises missing_service_provider exactly
\* when the Collection is empty and allowEmpty is false; on an empty
\* Collection with allowEmpty = true it returns the empty sequence.
C3_GetAllInstancesEmpty ==
    [][ last'.op = "getAllInstances" =>
            /\ last'.thrown \in {NoThrow, missing_service_provider}
            /\ (last'.thrown = missing_service_provider) <=>
                   (dependencies = << >> /\ ~last'.allowEmpty)
            /\ (dependencies = << >> /\ last'.allowEmpty) =>
                   (last'.thrown = NoThrow /\ last'.ret = << >>)
      ]_vars

\* getAllInstances(true) returned an empty set from an empty Collection.
C3_Witness ==
    /\ last.op = "getAllInstances"
    /\ last.allowEmpty
    /\ dependencies = << >>
    /\ last.thrown = NoThrow
    /\ last.ret = << >>

\* C4: when the bindings made since the last reset in a collection mode are N
\* getAllInstances-mode bindings, getAllInstances() returns N handles, calls
\* the N constructors once each in the order they were installed, and the
\* i-th handle is what the i-th installed constructor produces.
C4_GetAllInstancesInOrder ==
    (last.op = "getAllInstances" /\ last.thrown = NoThrow /\ multiOnly) =>
        /\ Len(last.ret) = Len(multiBound)
        /\ last.invoked = multiBound
        /\ \A i \in 1..Len(last.ret) : ProducedBy(last.ret[i], multiBound[i], last.thread)

\* Two different constructors were installed and resolved as a set.
C4_Witness ==
    /\ last.op = "getAllInstances" /\ last.thrown = NoThrow /\ multiOnly
    /\ Len(multiBound) = 2
    /\ multiBound[1] # multiBound[2]
    /\ Len(last.ret) = 2

\* C5: a getAllInstances-mode binding of a constructor never raises, whatever
\* the Slot and the Collection hold, and appends exactly that constructor at
\* the end of the Collection.
C5_MultipleBindingAppends ==
    [][ BindingStep("getAllInstances") =>
            /\ last'.thrown = NoThrow
            /\ Len(multiBound') = Len(multiBound) + 1
            /\ dependencies' = Append(dependencies, multiBound'[Len(multiBound')])
      ]_vars

\* A constructor already in the Collection was added again while the Slot is bound.
C5_Witness ==
    /\ last.op \in BindOps /\ last.mode = "getAllInstances" /\ last.nonnull
    /\ last.thrown = NoThrow
    /\ dependency # NullCtor
    /\ Len(dependencies) = 2
    /\ dependencies[1] = dependencies[2]

\* Every handle the memory memoises (what a shared-lifetime call can return).
Memoised(s, tl, inst) ==
    {s[k] : k \in ClosureTypes} \cup {tl[t][k] : t \in Threads, k \in ClosureTypes}
        \cup {inst}

\* The step is a successful resolution (getInstance or getAllInstances).
ResolutionStep ==
    /\ last'.op \in {"getInstance", "getAllInstances"}
    /\ last'.thrown = NoThrow

\* C6: with a Transient binding in the Slot, every getInstance() builds one
\* new object: it did not exist before the call (so no earlier call returned
\* it), no memo refers to it (so no shared-lifetime call returns it), the
\* objects built before are untouched, and it carries the provider and the
\* constructor arguments given at binding time.
C6_TransientIsFresh ==
    [][ (last'.op = "getInstance" /\ HasLifetime(dependency, "Transient")) =>
            /\ last'.thrown = NoThrow
            /\ Len(heap') = Len(heap) + 1
            /\ SubSeq(heap', 1, Len(heap)) = heap
            /\ last'.ret = <<Len(heap')>>
            /\ heap'[Len(heap')].provider = dependency.provider
            /\ heap'[Len(heap')].args = dependency.args
            /\ Len(heap') \notin Memoised(singleton', tlSingleton', instance')
      ]_vars

\* Two getInstance() calls on a Transient binding built two objects.
C6_Witness ==
    /\ last.op = "getInstance" /\ last.thrown = NoThrow
    /\ HasLifetime(dependency, "Transient")
    /\ Len(heap) >= 2
    /\ last.ret = <<Len(heap)>>
    /\ heap[Len(heap)].args = dependency.args
    /\ heap[Len(heap) - 1].args = dependency.args

\* C7: every resolution of a Singleton binding, through getInstance() or
\* getAllInstances() and on any thread, returns the object memoised for the
\* closure; once memoised it never changes, and a resolution that finds it
\* memoised constructs nothing.
C7_SingletonIsShared ==
    [][ /\ \A k \in ClosureTypes :
              singleton[k] # NoInstance => singleton'[k] = singleton[k]
        /\ ResolutionStep =>
              \A i \in 1..Len(last'.invoked) :
                  HasLifetime(last'.invoked[i], "Singleton") =>
                      /\ last'.ret[i] # NoInstance
                      /\ last'.ret[i] = singleton'[ClosureType(last'.invoked[i])]
        /\ (ResolutionStep /\ \A i \in 1..Len(last'.invoked) :
                /\ HasLifetime(last'.invoked[i], "Singleton")
                /\ singleton[ClosureType(last'.invoked[i])] # NoInstance) =>
              heap' = heap
        /\ (last'.op = "getInstance" /\ HasLifetime(dependency, "Singleton")) =>
              /\ last'.thrown = NoThrow
              /\ Len(heap') <= Len(heap) + 1
      ]_vars

\* Thread t2 resolved a Singleton binding and received the object that a
\* resolution on thread t1 had constructed.
C7_Witness ==
    /\ last.op = "getInstance" /\ last.thrown = NoThrow /\ last.thread = "t2"
    /\ HasLifetime(dependency, "Singleton")
    /\ last.ret = <<singleton[ClosureType(dependency)]>>
    /\ heap[last.ret[1]].thread = "t1"

\* C8: a resolution of a ThreadLocal binding returns the calling thread's
\* memoised object; a thread's memo never changes once set, so the thread
\* constructs on its first resolution and never again; the memos of two
\* threads for one closure are different objects.
C8_ThreadLocalPerThread ==
    [][ /\ \A t \in Threads, k \in ClosureTypes :
              tlSingleton[t][k] # NoInstance => tlSingleton'[t][k] = tlSingleton[t][k]
        /\ ResolutionStep =>
              \A i \in 1..Len(last'.invoked) :
                  HasLifetime(last'.invoked[i], "ThreadLocal") =>
                      /\ last'.ret[i] # NoInstance
                      /\ last'.ret[i] = tlSingleton'[last'.thread][ClosureType(last'.invoked[i])]
        /\ (last'.op = "getInstance" /\ HasLifetime(dependency, "ThreadLocal")) =>
              /\ last'.thrown = NoThrow
              /\ IF tlSingleton[last'.thread][ClosureType(dependency)] = NoInstance
                 THEN /\ Len(heap') = Len(heap) + 1
                      /\ last'.ret = <<Len(heap')>>
                 ELSE heap' = heap
        /\ \A t \in Threads, u \in Threads, k \in ClosureTypes :
              (t # u /\ tlSingleton'[t][k] # NoInstance) =>
                  tlSingleton'[t][k] # tlSingleton'[u][k]
      ]_vars

\* Both threads have resolved one ThreadLocal binding: two objects, and the
\* last call returned its own thread's.
C8_Witness ==
    /\ last.op = "getInstance" /\ last.thrown = NoThrow
    /\ HasLifetime(dependency, "ThreadLocal")
    /\ \A t \in Threads : tlSingleton[t][ClosureType(dependency)] # NoInstance
    /\ tlSingleton["t1"][ClosureType(dependency)] # tlSingleton["t2"][ClosureType(dependency)]
    /\ last.ret = <<tlSingleton[last.thread][ClosureType(dependency)]>>
    /\ heap[last.ret[1]].thread = last.thread

\* C9: when threads race in getInstance() on a Singleton binding, at most one
\* of them runs the initialiser, one provider object is constructed in all,
\* and every call that has returned holds that object.
C9_SingletonRace ==
    HasLifetime(dependency, "Singleton") =>
        /\ Cardinality({t \in Threads : pc[t] = "initializing"}) <= 1
        /\ Len(heap) <= 1
        /\ \A t \in Threads :
              pc[t] = "returned" =>
                  /\ got[t].handle \in 1..Len(heap)
                  /\ got[t].handle = singleton[ClosureType(dependency)]
        /\ \A t \in Threads, u \in Threads :
              (got[t].handle # NoInstance /\ got[u].handle # NoInstance) =>
                  got[t].handle = got[u].handle

\* Thread t2 reached the static while t1 was running its initialiser, waited,
\* and both have returned with the one object, which t1 constructed.
C9_Witness ==
    /\ HasLifetime(dependency, "Singleton")
    /\ pc["t1"] = "returned" /\ pc["t2"] = "returned"
    /\ got["t2"].waited
    /\ got["t1"].handle = got["t2"].handle
    /\ got["t2"].handle # NoInstance
    /\ heap[got["t2"].handle].thread = "t1"

\* C10: a binding call in consumer mode `both` that returns normally has
\* installed the constructor in both stores: injected() holds and
\* injectedSize() has grown by one, for inject(constructor, both) as for
\* inject<ServiceProvider, lifetime, both>(args).
C10_BothInstallsInBothStores ==
    [][ (BindingStep("both") /\ last'.thrown = NoThrow) =>
            /\ injected(dependency')
            /\ injectedSize(dependencies') = injectedSize(dependencies) + 1
      ]_vars

\* The recipe is a closure of the lifetime inject in mode `both` that memoises.
SharedBoth(c) ==
    /\ c.kind = "lambda"
    /\ c.consumerMode = "both"
    /\ c.lifetime \in {"Singleton", "ThreadLocal"}

\* C11: a `both`-mode Singleton or ThreadLocal recipe sits in the Slot exactly
\* when it sits in the Collection; and while the binding stands, a handle the
\* consumer kept from one resolution of it (getInstance(), or its position in
\* getAllInstances()) is the handle every later resolution of it returns,
\* through either call (for ThreadLocal: on the thread that obtained the kept one).
C11_BothSharesInstance ==
    /\ SharedBoth(dependency) => \E i \in 1..Len(dependencies) : dependencies[i] = dependency
    /\ \A i \in 1..Len(dependencies) :
          SharedBoth(dependencies[i]) => dependency = dependencies[i]
    /\ ( /\ kept.handle # NoInstance
         /\ ~kept.reset
         /\ SharedBoth(kept.recipe)
         /\ last.op \in {"getInstance", "getAllInstances"}
         /\ last.thrown = NoThrow
         /\ kept.recipe.lifetime = "ThreadLocal" => last.thread = kept.thread )
       => \A i \in 1..Len(last.ret) :
              last.invoked[i] = kept.recipe => last.ret[i] = kept.handle

\* The consumer kept the handle getInstance() returned for a `both`-mode
\* binding, and getAllInstances() then returned that handle at the binding's
\* position, the second of the Collection.
C11_Witness ==
    /\ kept.handle # NoInstance /\ ~kept.reset
    /\ kept.op = "getInstance"
    /\ SharedBoth(kept.recipe)
    /\ dependency = kept.recipe
    /\ last.op = "getAllInstances" /\ last.thrown = NoThrow
    /\ Len(last.ret) = 2
    /\ dependencies[2] = kept.recipe /\ dependencies[1] # kept.recipe
    /\ last.ret[2] = kept.handle
    /\ last.ret[1] # kept.handle

\* C12: when the consumer kept the handle getInstance() returned for a lifetime
\* binding, the manager was reset and a binding with other construction
\* arguments was made, getInstance() returns an object built with the new
\* binding's provider and arguments, and never the object kept from the
\* binding that was reset; whatever the lifetime.
C12_RebindReturnsNewProvider ==
    ( /\ kept.handle # NoInstance
      /\ kept.reset
      /\ kept.op = "getInstance"
      /\ kept.recipe.kind = "lambda"
      /\ dependency.kind = "lambda"
      /\ dependency # kept.recipe
      /\ last.op = "getInstance"
      /\ last.thrown = NoThrow )
    => /\ last.ret[1] # kept.handle
       /\ heap[last.ret[1]].provider = dependency.provider
       /\ heap[last.ret[1]].args = dependency.args

\* C13: right after clearInjectedInstancesForTesting() the interface is
\* unbound in both stores: injected() is false, injectedSize() is 0,
\* getInstance() and getAllInstances() raise missing_service_provider on any
\* thread and a getInstance-mode inject of any constructor returns normally;
\* and the call made next behaves so.
C13_ResetUnbinds ==
    [][ /\ last'.op = "clear" =>
              /\ ~injected(dependency')
              /\ injectedSize(dependencies') = 0
              /\ \A t \in Threads :
                    /\ getInstance(dependency', t, Memory').thrown = missing_service_provider
                    /\ getAllInstances(dependencies', FALSE, t, Memory').thrown
                           = missing_service_provider
              /\ \A c \in Constructor \ {NullCtor} :
                    /\ inject(dependency', dependencies', c, "getInstance").thrown = NoThrow
                    /\ inject(dependency', dependencies', c, "getInstance").dependency = c
        /\ (last.op = "clear" /\ last'.op = "getInstance") =>
              last'.thrown = missing_service_provider
        /\ (last.op = "clear" /\ last'.op = "getAllInstances" /\ ~last'.allowEmpty) =>
              last'.thrown = missing_service_provider
        /\ (last.op = "clear" /\ BindingStep("getInstance")) =>
              /\ last'.thrown = NoThrow
              /\ dependency' # NullCtor
      ]_vars

\* A reset was made after a binding had been resolved (a memoised object
\* exists), and both stores are empty.
C13_Witness ==
    /\ last.op = "clear"
    /\ \E k \in ClosureTypes : singleton[k] # NoInstance
    /\ dependency = NullCtor
    /\ dependencies = << >>

\* C14: the object the consumer's variable refers to exists and has not been
\* destroyed, whatever calls were made since the consumer obtained it (a
\* reset of the manager and later bindings among them), with InternalServices
\* as with SingletonServices.
C14_ResetKeepsHeldInstance ==
    kept.handle # NoInstance =>
        /\ kept.handle \in 1..Len(heap)
        /\ kept.handle \notin destroyed

\* SingletonServices: the consumer kept the injected instance, the manager was
\* reset and another provider injected; the kept one lives through the
\* consumer's variable alone.
C14_Witness ==
    /\ registry = "SingletonServices"
    /\ kept.handle # NoInstance /\ kept.reset /\ kept.op = "getInstance"
    /\ _instance # NoInstance
    /\ _instance # kept.handle
    /\ kept.handle \notin destroyed
    /\ destroyed = {}

\* InternalServices: the consumer kept a Transient object, the manager was
\* reset and bound anew, and an object nobody kept has been destroyed.
C14_WitnessTransient ==
    /\ registry = "InternalServices"
    /\ kept.handle # NoInstance /\ kept.reset
    /\ HasLifetime(kept.recipe, "Transient")
    /\ dependency # NullCtor
    /\ destroyed # {}
    /\ kept.handle \notin destroyed

\* In a step of SpecDip that is not a stuttering step, event' is the outcome
\* of the call the step made, and the unprimed variables are the state it
\* was made in.

\* C15: a dip::instance calls the installed acquire once when it is
\* constructed, and no other call of it or of the installers calls acquire;
\* it holds the reference acquire returned for as long as it is alive; its
\* destructor calls the release function installed at that time once, with
\* that reference, and when none is installed it calls nothing and deletes nothing.
C15_InstanceAcquiresAndReleasesOnce ==
    [][ /\ (event'.op = "instance" /\ event'.abort = NoAbort) =>
              /\ event'.acquired = <<[fn |-> _injector.acquire,
                                      ret |-> handles'[event'.scope]._instance]>>
              /\ event'.released = << >>
              /\ ~handles[event'.scope].alive /\ handles'[event'.scope].alive
        /\ (registry = "instance" /\ event'.op # "instance") => event'.acquired = << >>
        /\ \A s \in Scopes :
              (handles[s].alive /\ handles'[s].alive) =>
                  handles'[s]._instance = handles[s]._instance
        /\ event'.op = "~instance" =>
              /\ handles[event'.scope].alive /\ ~handles'[event'.scope].alive
              /\ IF _injector.release # NullFn
                 THEN event'.released = <<[fn |-> _injector.release,
                                           ref |-> handles[event'.scope]._instance]>>
                 ELSE event'.released = << >> /\ deleted' = deleted
        /\ (registry = "instance" /\ event'.op # "~instance") =>
              (event'.released = << >> /\ deleted' = deleted)
      ]_vars

\* A handle of a transient provider was destroyed while another one is alive:
\* its provider was deleted through the release function, the other's was not.
C15_Witness ==
    /\ event.op = "~instance" /\ event.abort = NoAbort /\ ~event.ub
    /\ Len(event.released) = 1
    /\ event.released[1].ref.kind = "new"
    /\ event.released[1].ref \in deleted
    /\ \E s \in Scopes : handles[s].alive /\ handles[s]._instance \notin deleted

\* The installation calls of dip::instance<Service>.
InstallOps == {"inject", "inject_singleton", "inject_thread_singleton", "inject_transient"}

\* C16: an installation call made while an injector is installed fails the
\* assertion "Dependency already injected" and leaves the installed injector
\* in place; the installed injector changes only by an installation call
\* made while none is installed, or by clear_injection().
C16_SecondInjectIsRefused ==
    [][ /\ (event'.op \in InstallOps /\ ~NotInjected(_injector)) =>
              /\ event'.abort = "Dependency already injected"
              /\ _injector' = _injector
        /\ _injector' # _injector =>
              \/ event'.op = "clear_injection"
              \/ event'.op \in InstallOps /\ NotInjected(_injector) /\ event'.abort = NoAbort
      ]_vars

\* inject_transient was called while the singleton injector was installed.
C16_Witness ==
    /\ event.op = "inject_transient"
    /\ event.abort = "Dependency already injected"
    /\ _injector = Injector(AcquireLambda("inject_singleton", "a"), NullFn)

\* The constructors of the two consumers.
CtorOps == {"instance", "instance_set"}

\* C17: when an acquire called by the constructor of a dip::instance or of a
\* dip::instance_set returns a null reference, the constructor fails the
\* assertion "An injector retrieved a null provider" (and only then); no
\* object that is alive holds a null reference.
C17_NullProviderIsRefused ==
    /\ event.op \in CtorOps =>
          ( (\E i \in 1..Len(event.acquired) : event.acquired[i].ret = NullRef)
            <=> event.abort = "An injector retrieved a null provider" )
    /\ \A s \in Scopes :
          /\ handles[s].alive => handles[s]._instance # NullRef
          /\ sets[s].alive =>
                \A i \in 1..Len(sets[s]._instances) : sets[s]._instances[i] # NullRef

\* A dip::instance_set was constructed with the round-robin injector added
\* twice while RoundRobin::initialize() had not run: the first acquire
\* returned null and the second one was not called.
C17_Witness ==
    /\ event.op = "instance_set"
    /\ event.abort = "An injector retrieved a null provider"
    /\ _injectors = <<custom_injector, custom_injector>>
    /\ event.acquired = <<[fn |-> RoundRobin_acquire, ret |-> NullRef]>>
    /\ \A s \in Scopes : ~sets[s].alive

\* C18: the constructor of a dip::instance called while no injector is
\* installed fails the assertion "Missing dependency injection", that of a
\* dip::instance_set called while no injector is added fails "No dependency
\* injections"; neither calls an acquire nor leaves an object alive, and the
\* constructors fail these assertions in no other case.
C18_MissingInjectionIsRefused ==
    /\ event.op = "instance" =>
          /\ _injector.acquire = NullFn <=> event.abort = "Missing dependency injection"
          /\ _injector.acquire = NullFn =>
                (event.acquired = << >> /\ ~handles[event.scope].alive)
    /\ event.op = "instance_set" =>
          /\ _injectors = << >> <=> event.abort = "No dependency injections"
          /\ _injectors = << >> =>
                (event.acquired = << >> /\ ~sets[event.scope].alive)
          /\ event.abort # "Missing dependency injection"

\* A dip::instance_set was declared after clear_injections() had removed the
\* injectors (a static provider had been constructed through them).
C18_Witness ==
    /\ event.op = "instance_set"
    /\ event.abort = "No dependency injections"
    /\ _injectors = << >>
    /\ statics # {}

\* C19: a constructor of dip::instance_set that completes has called the
\* acquire of every added injector once, in the order of addition; size() is
\* the number of injectors and element i is what the i-th call returned.
C19_SetAcquiresInOrder ==
    (event.op = "instance_set" /\ event.abort = NoAbort) =>
        /\ sets[event.scope].alive
        /\ Len(sets[event.scope]._instances) = Len(_injectors)
        /\ Len(event.acquired) = Len(_injectors)
        /\ \A i \in 1..Len(_injectors) :
              /\ event.acquired[i].fn = _injectors[i].acquire
              /\ sets[event.scope]._instances[i] = event.acquired[i].ret

\* A set was constructed from two different injectors, the round-robin one
\* called twice among them.
C19_Witness ==
    /\ event.op = "instance_set" /\ event.abort = NoAbort
    /\ Len(_injectors) = 2
    /\ _injectors[1] = _injectors[2]
    /\ _injectors[1] = custom_injector
    /\ sets[event.scope]._instances = <<PoolRef(0), PoolRef(1)>>

\* The release calls the destructor of a set owes: for each reference, in
\* order, the release of the injector that acquired it, when it has one.
RECURSIVE OwedReleases(_, _)
OwedReleases(by, instances) ==
    IF instances = << >> \/ by = << >> THEN << >>
    ELSE (IF Head(by).release # NullFn
          THEN <<[fn |-> Head(by).release, ref |-> Head(instances)]>> ELSE << >>)
         \o OwedReleases(Tail(by), Tail(instances))

\* C20: the destructor of a dip::instance_set completes and makes exactly the
\* release calls owed for the references the set holds, in acquisition order,
\* whatever add or clear_injections calls were made while it was alive.
C20_SetReleasesItsOwn ==
    [][ event'.op = "~instance_set" =>
            /\ event'.abort \in {NoAbort, "crash"}
            /\ event'.released = OwedReleases(sets[event'.scope].by,
                                              sets[event'.scope]._instances)
      ]_vars

\* RoundRobin::initialize() has run: the pool is built.
PoolBuilt == \A i \in 0..PoolSize - 1 : providers[i] = PoolRef(i)

\* C21: with the pool of RoundRobin built, the j-th call of RoundRobin::acquire
\* (from 0) returns pool member j mod PoolSize, so that 2 * PoolSize
\* consecutive calls return every member twice, in cyclic order; the cursor
\* stays in 0..PoolSize-1 and stands at the next member; no member is
\* deleted, and a program using this injector makes no release call.
C21_RoundRobinCycles ==
    /\ round \in 0..PoolSize - 1
    /\ \A i \in 0..PoolSize - 1 : PoolRef(i) \notin deleted
    /\ callSites = {"custom"} => event.released = << >>
    /\ PoolBuilt =>
          /\ \A i \in 1..Len(acquisitions) : acquisitions[i] = PoolRef((i - 1) % PoolSize)
          /\ round = Len(acquisitions) % PoolSize
          /\ Len(acquisitions) = 2 * PoolSize =>
                \A k \in 0..PoolSize - 1 :
                    Cardinality({i \in 1..Len(acquisitions) : acquisitions[i] = PoolRef(k)}) = 2

\* 2 * PoolSize handles were declared one after the other, as in test().
C21_Witness ==
    /\ PoolBuilt
    /\ registry = "instance"
    /\ _injector = custom_injector
    /\ Len(acquisitions) = 2 * PoolSize
    /\ event.op = "~instance"

\* The injector inject_transient installs.
TransientInjector(a) ==
    Injector(AcquireLambda("inject_transient", a), ReleaseDelete("inject_transient"))

\* The providers created by `new` and not deleted, and the handles alive
\* that refer to such a provider.
LiveProviders(n, d) == {i \in 1..Len(n) : NewRef(i) \notin d}
LiveHandles(h) == {s \in Scopes : h[s].alive /\ h[s]._instance.kind = "new"}

TransientSetInjector(a) ==
    Injector(AcquireLambda("add_transient", a), ReleaseDelete("add_transient"))

\* C23: two dip::instance_set alive at the same time on one thread hold
\* different instances of a provider added with add_transient, and the
\* destructor of a set deletes the instances created for it, once each, with
\* defined behaviour.
C23_TransientSetOwnsItsProviders ==
    /\ \A s \in Scopes, o \in Scopes :
          (s # o /\ sets[s].alive /\ sets[o].alive /\ sets[s].thread = sets[o].thread) =>
              \A i \in 1..Len(sets[s]._instances), j \in 1..Len(sets[o]._instances) :
                  (\E a \in DipArgs : sets[s].by[i] = TransientSetInjector(a)) =>
                      sets[s]._instances[i] # sets[o]._instances[j]
    /\ (event.op = "~instance_set"
            /\ \E i \in 1..Len(event.released) : event.released[i].fn = ReleaseDelete("add_transient")) =>
           ~event.ub

\* The injector inject_singleton installs.
SingletonInjector(a) == Injector(AcquireLambda("inject_singleton", a), NullFn)

\* C24: the handles declared, on whatever thread, while the injector of
\* inject_singleton is installed all refer to the one static provider of its
\* lambda; a destructor run with that injector installed calls no release
\* function; and in a program that installs through inject_singleton only,
\* nothing is ever deleted.
C24_SingletonIsSharedAndKept ==
    /\ \A s \in Scopes :
          (handles[s].alive /\ \E a \in DipArgs : handles[s].by = SingletonInjector(a)) =>
              /\ handles[s]._instance = StaticRef("inject_singleton")
              /\ \E o \in statics : o.ref = handles[s]._instance
    /\ (event.op = "~instance" /\ \E a \in DipArgs : _injector = SingletonInjector(a)) =>
          (event.released = << >> /\ ~event.ub)
    /\ callSites = {"singleton"} => (deleted = {} /\ news = << >>)

\* A handle declared on one thread was destroyed while a handle declared on
\* the other thread is alive: the static provider is still there.
C24_Witness ==
    /\ event.op = "~instance" /\ event.scope = "y" /\ event.released = << >>
    /\ \E a \in DipArgs : _injector = SingletonInjector(a)
    /\ handles["x"].alive /\ handles["x"].thread # event.thread
    /\ handles["x"]._instance = StaticRef("inject_singleton")
    /\ StaticRef("inject_singleton") \notin deleted

\* ---------------------------------------------------------------- two interfaces, one constructor function
\* A program that binds the same user-written constructor function for two
\* interfaces T and U its provider implements, as the multiple-inheritance
\* example does: DependencyManager<T> is the manager of the variables
\* dependency and dependencies, DependencyManager<U> that of `other`. The
\* function's static is one object whatever manager calls it. The outcome of
\* a call on U is written to `last` with "U::" before the name of the call.

InitInterfaces ==
    /\ callSites = {}
    /\ dependency = NullCtor
    /\ dependencies = << >>
    /\ heap = << >>
    /\ singleton = [k \in ClosureTypes |-> NoInstance]
    /\ tlSingleton = [t \in Threads |-> [k \in ClosureTypes |-> NoInstance]]
    /\ instance = NoInstance
    /\ firstBound = NullCtor
    /\ multiBound = << >>
    /\ multiOnly = TRUE
    /\ last = Outcome("start", "none", FALSE, "none", FALSE, NoThrow, << >>, << >>)
    /\ pc = [t \in Threads |-> "idle"]
    /\ got = [t \in Threads |-> NotYet]
    /\ registry = "InternalServices"
    /\ _instance = NoInstance
    /\ kept = NotKept
    /\ destroyed = {}
    /\ DipInit
    /\ other = NoBindings
    /\ stack = << >>

\* A call on DependencyManager<U> touches neither the stores of T nor a consumer.
OtherFrame ==
    UNCHANGED <<callSites, dependency, dependencies, firstBound, multiBound, multiOnly,
                raceVars, consumerVars, dipVars, stack>>

\* DependencyManager<U>::inject(constructor, consumerMode)
OtherInjectConstructor(constructor, consumerMode) ==
    LET r == inject(other.dependency, other.dependencies, constructor, consumerMode)
    IN  /\ Len(r.dependencies) <= MaxBindings
        /\ other' = [dependency |-> r.dependency, dependencies |-> r.dependencies]
        /\ last' = Outcome("U::inject", consumerMode, constructor # NullCtor, "none", FALSE,
                           r.thrown, << >>, << >>)
        /\ UNCHANGED <<heap, singleton, tlSingleton, instance>>
        /\ OtherFrame

\* DependencyManager<U>::clearInjectedInstancesForTesting()
OtherClear ==
    /\ other' = [dependency |-> dependencyInjection(other.dependency, NullCtor, TRUE).dependency,
                 dependencies |-> dependencyAddition(other.dependencies, NullCtor, TRUE)]
    /\ last' = Outcome("U::clear", "none", FALSE, "none", FALSE, NoThrow, << >>, << >>)
    /\ UNCHANGED <<heap, singleton, tlSingleton, instance>>
    /\ OtherFrame

\* DependencyManager<U>::getInstance() on thread t.
OtherGetInstance(t) ==
    LET r == getInstance(other.dependency, t, Memory)
    IN  /\ SetMemory(r.mem)
        /\ other' = [other EXCEPT !.dependency = r.dependency]
        /\ last' = Outcome("U::getInstance", "none", FALSE, t, FALSE,
                           r.thrown, r.ret, r.invoked)
        /\ OtherFrame

\* DependencyManager<U>::getAllInstances() on thread t.
OtherGetAllInstances(t) ==
    LET r == getAllInstances(other.dependencies, FALSE, t, Memory)
    IN  /\ SetMemory(r.mem)
        /\ other' = [other EXCEPT !.dependencies = r.dependencies]
        /\ last' = Outcome("U::getAllInstances", "none", FALSE, t, FALSE,
                           r.thrown, r.ret, r.invoked)
        /\ OtherFrame

NextInterfaces ==
    \/ \E m \in ServiceConsumerMode : InjectConstructor(global_constructor_function, m)
    \/ ClearInjectedInstancesForTesting
    \/ \E t \in Threads : GetInstance(t)
    \/ \E t \in Threads : GetAllInstances(t, FALSE)
    \/ \E m \in ServiceConsumerMode : OtherInjectConstructor(global_constructor_function, m)
    \/ OtherClear
    \/ \E t \in Threads : OtherGetInstance(t)
    \/ \E t \in Threads : OtherGetAllInstances(t)
    \/ Keep(1)
    \/ Drop

SpecInterfaces == InitInterfaces /\ [][NextInterfaces]_vars

\* The step is a getInstance() (named op) on a manager whose Slot dep holds
\* the constructor function: the function was called once, and the handle
\* returned and the memory left are those of that one call.
CallsTheFunctionOnce(op, dep) ==
    (last'.op = op /\ dep = global_constructor_function) =>
        LET f == GlobalConstructorFunction(last'.thread, Memory)
        IN  /\ last'.thrown = NoThrow
            /\ last'.invoked = <<global_constructor_function>>
            /\ last'.ret = <<f.ret>>
            /\ Memory' = f.mem
            /\ last'.ret = <<instance'>>
            /\ instance # NoInstance => (instance' = instance /\ heap' = heap)

\* C25: with a user-supplied constructor function in the Slot, every
\* getInstance() calls that function once and returns the handle it
\* produced, with nothing cached by the manager; the function of the examples
\* keeps one static object, so a handle a consumer kept from getInstance()
\* on T is the one every later getInstance() returns, on T and on a second
\* interface U bound to the same function.
C25_FunctionDecidesLifetime ==
    [][ /\ CallsTheFunctionOnce("getInstance", dependency)
        /\ CallsTheFunctionOnce("U::getInstance", other.dependency)
        /\ (/\ last'.op \in {"getInstance", "U::getInstance"}
            /\ last'.thrown = NoThrow
            /\ kept.handle # NoInstance
            /\ kept.recipe = global_constructor_function) =>
               last'.ret = <<kept.handle>>
      ]_vars

\* The consumer keeps the handle getInstance() returned on T, and
\* getInstance() on U, bound to the same function, has just returned it too.
C25_Witness ==
    /\ last.op = "U::getInstance" /\ last.thrown = NoThrow
    /\ other.dependency = global_constructor_function
    /\ kept.op = "getInstance" /\ kept.recipe = global_constructor_function
    /\ last.ret = <<kept.handle>>
    /\ Len(heap) = 1

\* ---------------------------------------------------------------- a Collection of two lifetimes
\* The programs of the provider-set example: a Singleton call site and a
\* Transient call site, both in getAllInstances mode.
ProviderSetPrograms ==
    {{Lambda(p, "Singleton", "getAllInstances", a), Lambda(p, "Transient", "getAllInstances", a)} :
        p \in Providers, a \in Args}

InitProviderSet ==
    /\ callSites \in ProviderSetPrograms
    /\ dependency = NullCtor
    /\ dependencies = << >>
    /\ heap = << >>
    /\ singleton = [k \in ClosureTypes |-> NoInstance]
    /\ tlSingleton = [t \in Threads |-> [k \in ClosureTypes |-> NoInstance]]
    /\ instance = NoInstance
    /\ firstBound = NullCtor
    /\ multiBound = << >>
    /\ multiOnly = TRUE
    /\ last = Outcome("start", "none", FALSE, "none", FALSE, NoThrow, << >>, << >>)
    /\ pc = [t \in Threads |-> "idle"]
    /\ got = [t \in Threads |-> NotYet]
    /\ registry = "InternalServices"
    /\ _instance = NoInstance
    /\ kept = NotKept
    /\ destroyed = {}
    /\ DipInit
    /\ other = NoBindings
    /\ stack = << >>

NextProviderSet ==
    \/ \E c \in callSites :
          ConsumerInjectLifetime(c.provider, c.lifetime, c.consumerMode, c.args)
    \/ ConsumerClear
    \/ \E t \in Threads : ConsumerGetAllInstances(t, FALSE)
    \/ \E i \in 1..MaxBindings : Keep(i)
    \/ Drop

SpecProviderSet == InitProviderSet /\ [][NextProviderSet]_vars

\* The Collection holds a Singleton closure followed by a Transient closure.
SingletonThenTransient(deps) ==
    /\ Len(deps) = 2
    /\ HasLifetime(deps[1], "Singleton")
    /\ HasLifetime(deps[2], "Transient")

\* C26: with a Singleton binding followed by a Transient binding in the
\* Collection, every getAllInstances() returns at the first position the
\* object of the Singleton closure's static (the one already there, the one a
\* consumer kept from an earlier call) and at the second position an object
\* that did not exist before the call and carries the Transient closure's
\* provider and arguments.
C26_LifetimePerBinding ==
    [][ (last'.op = "getAllInstances" /\ SingletonThenTransient(dependencies)) =>
            /\ last'.thrown = NoThrow
            /\ Len(last'.ret) = 2
            /\ last'.ret[1] = singleton'[ClosureType(dependencies[1])]
            /\ singleton[ClosureType(dependencies[1])] # NoInstance =>
                   last'.ret[1] = singleton[ClosureType(dependencies[1])]
            /\ (kept.op = "getAllInstances" /\ kept.recipe = dependencies[1]) =>
                   last'.ret[1] = kept.handle
            /\ last'.ret[2] = Len(heap')
            /\ last'.ret[2] > Len(heap)
            /\ last'.ret[2] # last'.ret[1]
            /\ heap'[last'.ret[2]].provider = dependencies[2].provider
            /\ heap'[last'.ret[2]].args = dependencies[2].args
            /\ SubSeq(heap', 1, Len(heap)) = heap
      ]_vars

\* A second getAllInstances() returned the Singleton instance the consumer
\* kept from the first one, and a Transient instance built after it.
C26_Witness ==
    /\ last.op = "getAllInstances" /\ last.thrown = NoThrow
    /\ SingletonThenTransient(dependencies)
    /\ kept.op = "getAllInstances" /\ kept.recipe = dependencies[1]
    /\ last.ret = <<kept.handle, Len(heap)>>
    /\ Len(heap) = 3

\* The step is a call of SingletonServices' inject that stored an instance.
SingletonInjected ==
    /\ last'.op \in {"injectProvider", "injectInstance"}
    /\ last'.nonnull
    /\ last'.thrown = NoThrow

\* C27: SingletonServices::DependencyManager: an inject that succeeds stores
\* an instance; the stored instance changes only by such an inject made
\* while nothing is stored, or by the reset; getInstance() returns the stored
\* instance and raises missing_service_provider exactly when nothing is
\* stored, constructing nothing; injected() is true exactly when an instance
\* is stored, that is exactly when getInstance() succeeds.
C27_SingletonServicesReturnsInjected ==
    [][ registry = "SingletonServices" =>
          /\ last'.op = "getInstance" =>
                /\ _instance = NoInstance =>
                      (last'.thrown = missing_service_provider /\ last'.ret = << >>)
                /\ _instance # NoInstance =>
                      (last'.thrown = NoThrow /\ last'.ret = <<_instance>>)
                /\ _instance' = _instance
                /\ heap' = heap
          /\ SingletonInjected => (_instance = NoInstance /\ _instance' # NoInstance)
          /\ _instance' # _instance =>
                \/ last'.op = "clear" /\ _instance' = NoInstance
                \/ SingletonInjected
          /\ SingletonServices_injected(_instance') <=> _instance' # NoInstance
          /\ SingletonServices_injected(_instance') <=>
                SingletonServices_getInstance(_instance').thrown = NoThrow
      ]_vars

\* getInstance() has returned the instance the consumer built and injected,
\* after an earlier instance was removed by the reset.
C27_Witness ==
    /\ registry = "SingletonServices"
    /\ last.op = "getInstance" /\ last.thrown = NoThrow
    /\ last.ret = <<_instance>>
    /\ kept.op = "make_shared" /\ kept.handle = _instance
    /\ Len(heap) = 2

\* C28: SingletonServices::DependencyManager: an inject of a provider, by
\* type or as an existing (non-null) instance, made while an instance is
\* stored raises service_provider_already_injected, leaves the stored
\* instance in place and constructs nothing.
C28_SingletonServicesSecondInjectRaises ==
    [][ (/\ registry = "SingletonServices"
         /\ _instance # NoInstance
         /\ last'.op \in {"injectProvider", "injectInstance"}
         /\ last'.nonnull) =>
            /\ last'.thrown = service_provider_already_injected
            /\ _instance' = _instance
            /\ heap' = heap
            /\ destroyed' = destroyed
      ]_vars

\* The instance the consumer built was refused while another one is stored.
C28_Witness ==
    /\ registry = "SingletonServices"
    /\ last.op = "injectInstance" /\ last.nonnull
    /\ last.thrown = service_provider_already_injected
    /\ _instance # NoInstance
    /\ kept.handle \notin {NoInstance, _instance}
    /\ Len(heap) = 2

\* The step is a binding call that stored a recipe in the Slot / appended one
\* to the Collection.
SlotBound ==
    /\ BindingStep("getInstance") \/ BindingStep("both")
    /\ last'.thrown = NoThrow

CollectionBound ==
    /\ BindingStep("getAllInstances") \/ (BindingStep("both") /\ last'.op = "injectLifetime")
    /\ last'.thrown = NoThrow

\* C29: injected() is true exactly when the Slot holds a recipe, which is
\* exactly when a binding call stored one since the last reset;
\* injectedSize() is the length of the Collection, which is the number of
\* binding calls that appended a recipe since the last reset; both calls
\* return normally and leave the Slot and the Collection as they are (they
\* take no part of the providers' memory, so they call no recipe).
C29_IntrospectionCountsBindings ==
    [][ /\ injected(dependency') <=> dependency' # NullCtor
        /\ injectedSize(dependencies') = Len(dependencies')
        /\ dependencyInjection(dependency', NullCtor, FALSE) =
               [dependency |-> dependency', thrown |-> NoThrow]
        /\ dependencyAddition(dependencies', NullCtor, FALSE) = dependencies'
        /\ injected(dependency') <=>
               (last'.op # "clear" /\ (injected(dependency) \/ SlotBound))
        /\ injectedSize(dependencies') =
               IF last'.op = "clear" THEN 0
               ELSE injectedSize(dependencies) + (IF CollectionBound THEN 1 ELSE 0)
      ]_vars

\* The Slot is bound and the Collection holds the same recipe twice.
C29_Witness ==
    /\ injected(dependency)
    /\ injectedSize(dependencies) = 2
    /\ dependencies[1] = dependencies[2]
    /\ last.op \in BindOps /\ last.thrown = NoThrow

\* ---------------------------------------------------------------- what the exceptions carry
\* typeid(T).name() and typeid(T *).name(), T being the service interface:
\* the names of two different types (implementation-defined strings; with
\* the Itanium ABI the second is the first with "P" before it).
typeid_T == "T"
typeid_pointer_to_T == "PT"

\* The serviceName argument of the exception a call constructs when it
\* throws: typeid(T).name() in every throw statement but the one of
\* SingletonServices' inject(Provider), which passes
\* typeid(alreadyCreatedInstance.get()).name(), the name of the type T *.
serviceName(reg, op) ==
    IF reg = "SingletonServices" /\ op = "injectInstance"
    THEN typeid_pointer_to_T
    ELSE typeid_T

\* what(): the text of the exception class followed by serviceName.
what(thrown, name) ==
    IF thrown = missing_service_provider
    THEN <<"Service provider not found for ", name>>
    ELSE <<"Duplicate injection for ", name>>

\* C30: every exception a call raises carries typeid(T).name(), the one
\* identifier of the interface, whichever call of whichever manager raised it.
C30_ExceptionsNameTheInterface ==
    last.thrown # NoThrow =>
        what(last.thrown, serviceName(registry, last.op))[2] = typeid_T

\* ---------------------------------------------------------------- two providers calling each other
\* The program of the infinite-loop example: MyServiceProvider1 is bound to
\* the interface T (MyServiceInterface1) and MyServiceProvider2 to the
\* interface U (MyServiceInterface2); doSomething() of the first resolves U
\* and calls doSomethingElse(), which resolves T and calls doSomething().
\* The lambdas of DependencyManager<T>::inject and DependencyManager<U>::inject
\* are different closure types, each with its own static: here the provider
\* class tells them apart.

\* Deepest call stack followed (the program's stack is finite too).
MaxDepth == 4

MyServiceProvider1 == "MyServiceProvider1"
MyServiceProvider2 == "MyServiceProvider2"

\* main: T::inject<MyServiceProvider1, lt, m>(); U::inject<MyServiceProvider2, lt, m>();
MutualPrograms ==
    {{Lambda(MyServiceProvider1, lt, m, "a"), Lambda(MyServiceProvider2, lt, m, "a")} :
        lt \in Lifetime, m \in ServiceConsumerMode}

InitMutual ==
    /\ callSites \in MutualPrograms
    /\ dependency = NullCtor
    /\ dependencies = << >>
    /\ heap = << >>
    /\ singleton = [k \in {MyServiceProvider1, MyServiceProvider2} \X ServiceConsumerMode
                        |-> NoInstance]
    /\ tlSingleton = [t \in Threads |->
                        [k \in {MyServiceProvider1, MyServiceProvider2} \X ServiceConsumerMode
                            |-> NoInstance]]
    /\ instance = NoInstance
    /\ firstBound = NullCtor
    /\ multiBound = << >>
    /\ multiOnly = TRUE
    /\ last = Outcome("start", "none", FALSE, "none", FALSE, NoThrow, << >>, << >>)
    /\ pc = [t \in Threads |-> "idle"]
    /\ got = [t \in Threads |-> NotYet]
    /\ registry = "InternalServices"
    /\ _instance = NoInstance
    /\ kept = NotKept
    /\ destroyed = {}
    /\ DipInit
    /\ other = NoBindings
    /\ stack = << >>

\* Variant: the statics of dependencyInjection and dependencyAddition are
\* the same objects for every interface, so a binding of U lands in the
\* stores T reads.
OtherInjectLifetimeSameStatics(p, lt, consumerMode, a) ==
    /\ Bound("U::injectLifetime",
             injectLifetime(dependency, dependencies, Lambda(p, lt, consumerMode, a),
                            consumerMode),
             Lambda(p, lt, consumerMode, a), consumerMode)
    /\ UNCHANGED consumerVars

\* U::inject<p, lt, consumerMode>(a)
OtherInjectLifetime(p, lt, consumerMode, a) ==
    LET r == injectLifetime(other.dependency, other.dependencies,
                            Lambda(p, lt, consumerMode, a), consumerMode)
    IN  /\ Len(r.dependencies) <= MaxBindings
        /\ other' = [dependency |-> r.dependency, dependencies |-> r.dependencies]
        /\ last' = Outcome("U::injectLifetime", consumerMode, TRUE, "none", FALSE,
                           r.thrown, << >>, << >>)
        /\ UNCHANGED <<heap, singleton, tlSingleton, instance>>
        /\ OtherFrame

\* The method a provider object runs when it is called through its interface.
Method(p) == IF p = MyServiceProvider1 THEN "doSomething" ELSE "doSomethingElse"

\* Variant: a method already in progress is not entered a second time, the
\* call returns at once.
CallOnce(frames, mem, ret, t) ==
    LET m == Method(mem.heap[ret].provider)
        caller == [i \in 1..Len(frames) |->
                      IF i = Len(frames) THEN [frames[i] EXCEPT !.at = "called"]
                      ELSE frames[i]]
    IN  IF \E i \in 1..Len(frames) : frames[i].method = m
        THEN caller
        ELSE Append(caller, [method |-> m, this |-> ret, thread |-> t, at |-> "entry"])

\* service->method() made on thread t from the innermost frame, `ret` being
\* the handle getInstance() returned: the caller waits in its call, the
\* method of the object starts.
Call(frames, mem, ret, t) ==
    LET caller == [i \in 1..Len(frames) |->
                      IF i = Len(frames) THEN [frames[i] EXCEPT !.at = "called"]
                      ELSE frames[i]]
    IN  Append(caller, [method |-> Method(mem.heap[ret].provider), this |-> ret,
                        thread |-> t, at |-> "entry"])

\* A method returns: its frame is left, and its caller goes on after the call.
Return(frames) ==
    [i \in 1..Len(frames) - 1 |->
        IF i = Len(frames) - 1 THEN [frames[i] EXCEPT !.at = "after"] ELSE frames[i]]

MutualFrame ==
    UNCHANGED <<callSites, dependencies, firstBound, multiBound, multiOnly,
                raceVars, consumerVars, dipVars>>

\* main, on thread t: service1 = T::getInstance(); service1->doSomething();
\* An exception of getInstance() leaves main.
Enter(t) ==
    LET r == getInstance(dependency, t, Memory)
    IN  /\ stack = << >>
        /\ SetMemory(r.mem)
        /\ dependency' = r.dependency
        /\ stack' = IF r.thrown # NoThrow THEN << >> ELSE Call(<< >>, r.mem, r.ret[1], t)
        /\ last' = Outcome("getInstance", "none", FALSE, t, FALSE, r.thrown, r.ret, r.invoked)
        /\ UNCHANGED other
        /\ MutualFrame

\* The innermost method goes on, on the thread of the call. At its entry,
\* doSomething() runs U::getInstance()->doSomethingElse() and
\* doSomethingElse() runs T::getInstance()->doSomething(); an exception of
\* getInstance() leaves every frame, none of them has a handler. After its
\* call has returned, the method returns.
Step ==
    /\ stack # << >>
    /\ LET top == stack[Len(stack)]
           viaU == top.method = "doSomething"
           r == getInstance(IF viaU THEN other.dependency ELSE dependency,
                            top.thread, Memory)
       IN  IF top.at = "entry"
           THEN /\ Len(stack) < MaxDepth
                /\ SetMemory(r.mem)
                /\ dependency' = IF viaU THEN dependency ELSE r.dependency
                /\ other' = IF viaU THEN [other EXCEPT !.dependency = r.dependency] ELSE other
                /\ stack' = IF r.thrown # NoThrow THEN << >>
                            ELSE Call(stack, r.mem, r.ret[1], top.thread)
                /\ last' = Outcome(IF viaU THEN "U::getInstance" ELSE "getInstance",
                                   "none", FALSE, top.thread, FALSE,
                                   r.thrown, r.ret, r.invoked)
           ELSE /\ stack' = Return(stack)
                /\ UNCHANGED <<dependency, other, heap, singleton, tlSingleton, instance, last>>
    /\ MutualFrame

NextMutual ==
    \/ \E c \in callSites :
          /\ c.provider = MyServiceProvider1
          /\ InjectLifetime(c.provider, c.lifetime, c.consumerMode, c.args)
    \/ \E c \in callSites :
          /\ c.provider = MyServiceProvider2
          /\ OtherInjectLifetime(c.provider, c.lifetime, c.consumerMode, c.args)
    \/ ClearInjectedInstancesForTesting
    \/ OtherClear
    \/ \E t \in Threads : GetInstance(t)
    \/ \E t \in Threads : GetAllInstances(t, FALSE)
    \/ \E t \in Threads : OtherGetInstance(t)
    \/ \E t \in Threads : OtherGetAllInstances(t)
    \/ \E t \in Threads : Enter(t)
    \/ Step

SpecMutual == InitMutual /\ [][NextMutual]_vars

\* The Slot the innermost method reads in its body.
SlotReadBy(frame) == IF frame.method = "doSomething" THEN other.dependency ELSE dependency

\* C31: while MyServiceProvider1 is bound to T and MyServiceProvider2 to U,
\* the call of doSomething() never returns: each method in progress finds
\* the other interface's Slot bound, its getInstance() raises nothing, no
\* error about the cycle is raised, and the provider it gets is called in
\* turn, so that every step leaves the frames in progress where they were
\* and adds one; no frame is ever found to have returned from its call.
C31_MutualCallsNeverReturn ==
    [][ /\ (stack # << >> /\ stack' # stack /\ SlotReadBy(stack[Len(stack)]) # NullCtor)
            => /\ last'.thrown = NoThrow
               /\ Len(last'.ret) = 1
               /\ Len(stack') = Len(stack) + 1
               /\ \A i \in 1..Len(stack) :
                     /\ stack'[i].method = stack[i].method
                     /\ stack'[i].this = stack[i].this
                     /\ stack'[i].at = "called"
               /\ stack'[Len(stack')].method # stack[Len(stack)].method
               /\ stack'[Len(stack')].this = last'.ret[1]
        /\ \A i \in 1..Len(stack') : stack'[i].at # "after"
        /\ (stack' # << >>) => stack'[Len(stack')].at = "entry"
      ]_vars

\* The recursion has reached the deepest stack followed, both methods being
\* in progress more than once.
C31_Witness ==
    /\ Len(stack) = MaxDepth
    /\ stack[1].method = "doSomething"
    /\ stack[MaxDepth].at = "entry"
    /\ dependency # NullCtor
    /\ other.dependency # NullCtor
    /\ last.op \in {"getInstance", "U::getInstance"}
    /\ last.thrown = NoThrow

\* ---------------------------------------------------------------- threads racing in a Single-mode binding
\* The binding calls taken one step at a time, made by two threads with no
\* synchronisation between them (the header has none): the test of the
\* static (dependency == nullptr, _instance == nullptr) and the assignment
\* that follows it are separate accesses, and accesses of different threads
\* interleave. The program binds on one registry, in one Single mode.

BindRacePrograms ==
    {{Lambda(p, lt, m, "a")} : p \in Providers, lt \in Lifetime, m \in {"getInstance", "both"}}

\* The argument a thread passes, which tells its binding from the other's.
ArgOf(t) == IF t = "t1" THEN "a" ELSE "b"

\* The closure thread t builds at the program's call site.
ClosureOf(t) ==
    LET c == CHOOSE c \in callSites : TRUE
    IN  Lambda(c.provider, c.lifetime, c.consumerMode, ArgOf(t))

InitBindRace ==
    /\ callSites \in BindRacePrograms
    /\ registry \in Registries
    /\ dependency = NullCtor
    /\ dependencies = << >>
    /\ heap = << >>
    /\ singleton = [k \in ClosureTypes |-> NoInstance]
    /\ tlSingleton = [t \in Threads |-> [k \in ClosureTypes |-> NoInstance]]
    /\ instance = NoInstance
    /\ firstBound = NullCtor
    /\ multiBound = << >>
    /\ multiOnly = TRUE
    /\ last = Outcome("start", "none", FALSE, "none", FALSE, NoThrow, << >>, << >>)
    /\ pc = [t \in Threads |-> "idle"]
    /\ got = [t \in Threads |-> NotYet]
    /\ _instance = NoInstance
    /\ kept = NotKept
    /\ destroyed = {}
    /\ DipInit
    /\ other = NoBindings
    /\ stack = << >>

BindRaceFrame ==
    UNCHANGED <<callSites, singleton, tlSingleton, instance, firstBound, multiBound,
                multiOnly, got, registry, kept, destroyed, dipVars, other, stack>>

\* Thread t enters the binding call and evaluates the test of the static:
\* `if (dependency == nullptr)` of dependencyInjection, `if (_instance ==
\* nullptr)` of SingletonServices' inject.
BindTest(t) ==
    /\ pc[t] = "idle"
    /\ pc' = [pc EXCEPT ![t] =
                 IF registry = "InternalServices"
                 THEN IF dependency = NullCtor THEN "store" ELSE "throw"
                 ELSE IF _instance = NoInstance THEN "store" ELSE "throw"]
    /\ UNCHANGED <<dependency, dependencies, heap, _instance, last>>
    /\ BindRaceFrame

\* Thread t found the static empty: `dependency = in`, or
\* `_instance = std::make_shared<ServiceProvider>(args...)`. The `both` mode
\* of InternalServices goes on to dependencyAddition.
BindStore(t) ==
    /\ pc[t] = "store"
    /\ IF registry = "InternalServices"
       THEN /\ dependency' = ClosureOf(t)
            /\ pc' = [pc EXCEPT ![t] =
                         IF ClosureOf(t).consumerMode = "both" THEN "add" ELSE "returned"]
            /\ UNCHANGED <<heap, _instance>>
       ELSE LET n == make_shared(Memory, t, ClosureOf(t).provider, ArgOf(t))
            IN  /\ Len(n.mem.heap) <= MaxInstances
                /\ heap' = n.mem.heap
                /\ _instance' = n.ret
                /\ pc' = [pc EXCEPT ![t] = "returned"]
                /\ UNCHANGED dependency
    /\ last' = Outcome("injectLifetime", ClosureOf(t).consumerMode, TRUE, t, FALSE,
                       NoThrow, << >>, << >>)
    /\ UNCHANGED dependencies
    /\ BindRaceFrame

\* Thread t found the static set: throw service_provider_already_injected.
BindThrow(t) ==
    /\ pc[t] = "throw"
    /\ pc' = [pc EXCEPT ![t] = "thrown"]
    /\ last' = Outcome("injectLifetime", ClosureOf(t).consumerMode, TRUE, t, FALSE,
                       service_provider_already_injected, << >>, << >>)
    /\ UNCHANGED <<dependency, dependencies, heap, _instance>>
    /\ BindRaceFrame

\* Thread t, in `both` mode: dependencyAddition(constructor).
BindAdd(t) ==
    /\ pc[t] = "add"
    /\ Len(dependencies) < MaxBindings
    /\ dependencies' = dependencyAddition(dependencies, ClosureOf(t), FALSE)
    /\ pc' = [pc EXCEPT ![t] = "returned"]
    /\ UNCHANGED <<dependency, heap, _instance, last>>
    /\ BindRaceFrame

\* The caller of thread t has seen how its call ended; the thread may call again.
BindEnd(t) ==
    /\ pc[t] \in {"returned", "thrown"}
    /\ pc' = [pc EXCEPT ![t] = "idle"]
    /\ UNCHANGED <<dependency, dependencies, heap, _instance, last>>
    /\ BindRaceFrame

\* clearInjectedInstancesForTesting(), made while no binding call is in progress.
BindClear ==
    /\ \A t \in Threads : pc[t] = "idle"
    /\ dependency' = dependencyInjection(dependency, NullCtor, TRUE).dependency
    /\ dependencies' = dependencyAddition(dependencies, NullCtor, TRUE)
    /\ _instance' = SingletonServices_clearInjectedInstancesForTesting(_instance)
    /\ last' = Outcome("clear", "none", FALSE, "none", FALSE, NoThrow, << >>, << >>)
    /\ UNCHANGED <<heap, pc>>
    /\ BindRaceFrame

NextBindRace ==
    \/ \E t \in Threads : BindTest(t)
    \/ \E t \in Threads : BindStore(t)
    \/ \E t \in Threads : BindThrow(t)
    \/ \E t \in Threads : BindAdd(t)
    \/ \E t \in Threads : BindEnd(t)
    \/ BindClear

SpecBindRace == InitBindRace /\ [][NextBindRace]_vars

\* C32: of two threads that call a Single-mode binding of the same
\* interface while its Slot is empty, one stores its binding and the other
\* gets service_provider_already_injected: the two calls are never both
\* found to have returned normally (no reset is made while a call has not
\* been seen to end, so two normal returns are two bindings of one Slot).
C32_ConcurrentBindingOneWins ==
    ~(\A t \in Threads : pc[t] = "returned")

\* ---------------------------------------------------------------- lazy construction
\* C33: a binding call of InternalServices with the Singleton or ThreadLocal
\* lifetime constructs nothing and leaves every memo as it was; only a
\* resolution constructs; a getInstance() that finds the memo of the bound
\* closure empty (for the process, or for the calling thread) constructs
\* exactly one provider, on the calling thread and with the arguments of the
\* binding, memoises it and returns it.
C33_SharedLifetimesConstructLazily ==
    [][ /\ (last'.op = "injectLifetime" /\ \E c \in callSites :
                HasLifetime(c, "Singleton") \/ HasLifetime(c, "ThreadLocal")) =>
              /\ heap' = heap
              /\ singleton' = singleton
              /\ tlSingleton' = tlSingleton
        /\ heap' # heap => ResolutionStep
        /\ (/\ last'.op = "getInstance"
            /\ \/ /\ HasLifetime(dependency, "Singleton")
                  /\ singleton[ClosureType(dependency)] = NoInstance
               \/ /\ HasLifetime(dependency, "ThreadLocal")
                  /\ tlSingleton[last'.thread][ClosureType(dependency)] = NoInstance) =>
              /\ heap' = Append(heap, [provider |-> dependency.provider,
                                       args |-> dependency.args,
                                       thread |-> last'.thread])
              /\ last'.ret = <<Len(heap')>>
              /\ HasLifetime(dependency, "Singleton") =>
                     singleton'[ClosureType(dependency)] = Len(heap')
              /\ HasLifetime(dependency, "ThreadLocal") =>
                     tlSingleton'[last'.thread][ClosureType(dependency)] = Len(heap')
      ]_vars

\* A ThreadLocal binding was resolved on both threads: nothing was built
\* before, and each thread built its provider at its first resolution.
C33_Witness ==
    /\ last.op = "getInstance" /\ last.thrown = NoThrow
    /\ HasLifetime(dependency, "ThreadLocal")
    /\ Len(heap) = 2
    /\ heap[1].thread # heap[2].thread
    /\ last.ret = <<2>>
    /\ tlSingleton[last.thread][ClosureType(dependency)] = 2

\* ---------------------------------------------------------------- a Collection of one provider, bound twice
\* Programs with two call sites of one instantiation of the lifetime inject
\* in getAllInstances mode, inject<p, lt, getAllInstances>("a") and
\* inject<p, lt, getAllInstances>("b"), lt being a memoising lifetime.
ArgumentPrograms ==
    {{Lambda(p, lt, "getAllInstances", a) : a \in Args} :
        p \in Providers, lt \in {"Singleton", "ThreadLocal"}}

InitArguments ==
    /\ callSites \in ArgumentPrograms
    /\ dependency = NullCtor
    /\ dependencies = << >>
    /\ heap = << >>
    /\ singleton = [k \in ClosureTypes |-> NoInstance]
    /\ tlSingleton = [t \in Threads |-> [k \in ClosureTypes |-> NoInstance]]
    /\ instance = NoInstance
    /\ firstBound = NullCtor
    /\ multiBound = << >>
    /\ multiOnly = TRUE
    /\ last = Outcome("start", "none", FALSE, "none", FALSE, NoThrow, << >>, << >>)
    /\ pc = [t \in Threads |-> "idle"]
    /\ got = [t \in Threads |-> NotYet]
    /\ registry = "InternalServices"
    /\ _instance = NoInstance
    /\ kept = NotKept
    /\ destroyed = {}
    /\ DipInit
    /\ other = NoBindings
    /\ stack = << >>

SpecArguments == InitArguments /\ [][NextProviderSet]_vars

\* C34: every Singleton or ThreadLocal binding call has a memo of its own:
\* getAllInstances() on a Collection of such bindings returns as many
\* different objects as there are bindings, each carrying the provider and
\* the arguments of its own binding call.
C34_MemoPerBindingCall ==
    ( /\ last.op = "getAllInstances"
      /\ last.thrown = NoThrow
      /\ \A i \in 1..Len(dependencies) :
            HasLifetime(dependencies[i], "Singleton")
                \/ HasLifetime(dependencies[i], "ThreadLocal") )
    => /\ Len(last.ret) = Len(dependencies)
       /\ \A i \in 1..Len(last.ret) :
             /\ heap[last.ret[i]].provider = dependencies[i].provider
             /\ heap[last.ret[i]].args = dependencies[i].args
             /\ \A j \in 1..Len(last.ret) : i # j => last.ret[i] # last.ret[j]

\* ---------------------------------------------------------------- handles outliving their injector
\* C35: the destructor of a dip::instance releases its reference through the
\* release function of the injector whose acquire produced it, the one
\* installed when the handle was constructed: that function is called once
\* with the reference, or nothing is called when that injector had no
\* release function; whatever was cleared or installed for the service
\* while the handle was alive.
C35_ReleasePairedWithAcquire ==
    [][ event'.op = "~instance" =>
            event'.released =
                IF handles[event'.scope].by.release # NullFn
                THEN <<[fn |-> handles[event'.scope].by.release,
                        ref |-> handles[event'.scope]._instance]>>
                ELSE << >>
      ]_vars

\* C36: the destructor of a dip::instance_set completes without error
\* whatever add calls were made for the service while the set was alive,
\* also when the list of injectors has become longer than the list of
\* references the set holds: no call of it ends in std::terminate.
C36_SetDestructorCompletes ==
    event.op = "~instance_set" => event.abort # "std::terminate"

\* ---------------------------------------------------------------- a binding that fails
\* C37: a binding call in `both` mode that raises
\* service_provider_already_injected, the Slot being bound already, leaves
\* the Collection as it was: injectedSize() is the same before and after the
\* call, the constructors stored are the same, and the Slot keeps its
\* constructor.
C37_FailedBothLeavesCollection ==
    [][ (BindingStep("both") /\ last'.thrown = service_provider_already_injected) =>
            /\ injected(dependency)
            /\ injectedSize(dependencies') = injectedSize(dependencies)
            /\ dependencies' = dependencies
            /\ dependency' = dependency
      ]_vars

\* A second inject<P, lifetime, both>() was refused; the Collection holds the
\* one constructor the first call stored.
C37_Witness ==
    /\ last.op = "injectLifetime" /\ last.mode = "both"
    /\ last.thrown = service_provider_already_injected
    /\ injectedSize(dependencies) = 1
    /\ dependencies[1] = dependency

\* ---------------------------------------------------------------- two stores
\* C38: the Slot and the Collection of an interface are separate stores. A
\* binding call in getInstance mode leaves the Collection as it was, hence
\* injectedSize() and what getAllInstances() calls; a binding call in
\* getAllInstances mode leaves the Slot as it was, hence injected(); and
\* neither constructs anything. So after bindings in getAllInstances mode
\* only, getInstance() raises missing_service_provider.
C38_SlotAndCollectionAreSeparate ==
    [][ /\ BindingStep("getInstance") =>
              /\ dependencies' = dependencies
              /\ injectedSize(dependencies') = injectedSize(dependencies)
        /\ BindingStep("getAllInstances") =>
              /\ dependency' = dependency
              /\ injected(dependency') = injected(dependency)
              /\ last'.thrown = NoThrow
        /\ (BindingStep("getInstance") \/ BindingStep("getAllInstances")) =>
              /\ heap' = heap
              /\ singleton' = singleton
              /\ tlSingleton' = tlSingleton
              /\ instance' = instance
        /\ (/\ last'.op = "getInstance"
            /\ firstBound = NullCtor
            /\ multiOnly
            /\ multiBound # << >>) =>
              /\ last'.thrown = missing_service_provider
              /\ ~injected(dependency)
              /\ injectedSize(dependencies) = Len(multiBound)
      ]_vars

\* getInstance() was refused while the Collection holds two bindings made
\* in getAllInstances mode.
C38_Witness ==
    /\ last.op = "getInstance"
    /\ last.thrown = missing_service_provider
    /\ ~injected(dependency)
    /\ injectedSize(dependencies) = 2
    /\ multiBound = dependencies

\* ---------------------------------------------------------------- two interfaces
\* The calls made on the manager of T and on the manager of U.
OpsOfT == {"injectLifetime", "clear", "getInstance", "getAllInstances"}
OpsOfU == {"U::injectLifetime", "U::clear", "U::getInstance", "U::getAllInstances"}

\* The memory after the step.
MemoryAfter == [heap |-> heap', singleton |-> singleton',
                tlSingleton |-> tlSingleton', instance |-> instance']

\* Resolution b, made in the state before a step that left n objects, and
\* resolution a, made in the state after it, come to the same: the same
\* exception, the same constructors called and, position by position, the
\* same existing object or a newly built object of the same provider, built
\* with the same arguments on the same thread.
SameResolution(b, a, n) ==
    LET bv == b
        av == a
    IN  /\ av.thrown = bv.thrown
        /\ av.invoked = bv.invoked
        /\ Len(av.ret) = Len(bv.ret)
        /\ \A i \in 1..Len(bv.ret) :
              IF bv.ret[i] <= n
              THEN av.ret[i] = bv.ret[i]
              ELSE /\ av.ret[i] > Len(heap')
                   /\ av.mem.heap[av.ret[i]] = bv.mem.heap[bv.ret[i]]

\* C39: the managers of two interfaces are isolated. A binding, a
\* resolution or a reset made on T leaves the Slot and the Collection of U as
\* they were, and whatever getInstance() and getAllInstances() of U would
\* return on any thread; and likewise with T and U exchanged.
C39_InterfacesAreIsolated ==
    [][ /\ last'.op \in OpsOfT =>
              /\ other' = other
              /\ \A t \in Threads :
                    /\ SameResolution(getInstance(other.dependency, t, Memory),
                                      getInstance(other'.dependency, t, MemoryAfter),
                                      Len(heap))
                    /\ SameResolution(getAllInstances(other.dependencies, FALSE, t, Memory),
                                      getAllInstances(other'.dependencies, FALSE, t,
                                                      MemoryAfter),
                                      Len(heap))
        /\ last'.op \in OpsOfU =>
              /\ dependency' = dependency
              /\ dependencies' = dependencies
              /\ \A t \in Threads :
                    /\ SameResolution(getInstance(dependency, t, Memory),
                                      getInstance(dependency', t, MemoryAfter),
                                      Len(heap))
                    /\ SameResolution(getAllInstances(dependencies, FALSE, t, Memory),
                                      getAllInstances(dependencies', FALSE, t, MemoryAfter),
                                      Len(heap))
      ]_vars

\* T was bound, resolved and reset while U stayed bound: U still resolves to
\* a provider of its own.
C39_Witness ==
    /\ last.op = "U::getInstance" /\ last.thrown = NoThrow
    /\ ~injected(dependency)
    /\ injected(other.dependency)
    /\ heap[last.ret[1]].provider = MyServiceProvider2
    /\ \E h \in 1..Len(heap) : heap[h].provider = MyServiceProvider1

====
